---- MODULE Spec2Model ----
(***************************************************************************)
(* GitPulse (src/gitpulse.py): multi-repository health monitor.            *)
(*                                                                         *)
(* The pure functions of the program are operators; each component has a   *)
(* specification that draws its inputs from bounded sets and applies it:   *)
(*   SpecHealth     GitPulse._calculate_health                             *)
(*   SpecRunGit     GitPulse._run_git                                      *)
(*   SpecPorcelain  the working-tree step of GitPulse._get_repo_status     *)
(*   SpecExtract    GitPulse.get_status and GitPulse._get_repo_status      *)
(*   SpecLocate     GitPulse._find_repos over a directory tree             *)
(*   SpecScan       GitPulse.scan: locate, extract per repository, sort    *)
(* Text is a sequence of tokens, each one character (" ", "\n", "M", "7")  *)
(* or a word whose characters the program never looks into ("main").       *)
(* An optional value is <<>> or <<v>>.                                     *)
(***************************************************************************)
EXTENDS Integers, Sequences, FiniteSets, TLC

VARIABLES
    hstatus,    \* SpecHealth: the RepoStatus handed to _calculate_health
    hresult,    \* SpecHealth: <<what _calculate_health returned>>, <<>> before the call
    proc,       \* SpecRunGit: what subprocess.run does for the command
    ret,        \* SpecRunGit: <<the outcome of _run_git>>, <<>> before the call
    pcodes,     \* SpecPorcelain: the status codes git lists, one per changed path
    pout,       \* SpecPorcelain: <<[stdout, counts]>> of the working-tree step
    gin,        \* SpecExtract: the argument of get_status and its environment
    gout,       \* SpecExtract: <<the outcome of get_status>>, <<>> before the call
    lfs,        \* SpecLocate: the directory tree, a set of <<path, kind>> entries
    lmax,       \* SpecLocate: self.max_depth
    lout,       \* SpecLocate: <<the outcome of _find_repos>>, <<>> before the call
    sarg,       \* SpecScan: what the root_dir argument of scan names
    sfs,        \* SpecScan: the directory tree under the root
    scan        \* SpecScan: the call of scan: its position, locals and history

healthVars == <<hstatus, hresult>>
runVars == <<proc, ret>>
porcelainVars == <<pcodes, pout>>
extractVars == <<gin, gout>>
locateVars == <<lfs, lmax, lout>>
scanVars == <<sarg, sfs, scan>>
vars ==
    <<hstatus, hresult, proc, ret, pcodes, pout, gin, gout, lfs, lmax, lout,
      sarg, sfs, scan>>

\* A variable of a component the specification at hand does not run.
Idle == <<>>

Max(a, b) == IF a >= b THEN a ELSE b

(***************************************************************************)
(* Bounds of the model.                                                    *)
(***************************************************************************)
\* Largest value of a file, commit or stash counter drawn for a status record.
MaxCount == 1
\* Longest captured output drawn for one command, in tokens.
MaxText == 3
\* Most changed paths in one status listing.
MaxLines == 2
\* Most entries (directories and files) below the root of a directory tree.
MaxEntries == 4
\* Largest max_depth a GitPulse object is constructed with.
MaxDepth == 2
\* Most repositories created under the root of a scan.
MaxRepos == 3
\* Links in the tree a scan walks.
MaxLinks == 1

(***************************************************************************)
(* Text: the str methods the program calls.                                *)
(***************************************************************************)
NL == "\n"
Whitespace == {" ", NL, "\t"}

RECURSIVE LStrip(_)
LStrip(s) ==
    IF s # <<>> /\ Head(s) \in Whitespace THEN LStrip(Tail(s)) ELSE s

RECURSIVE RStrip(_)
RStrip(s) ==
    IF s # <<>> /\ s[Len(s)] \in Whitespace
    THEN RStrip(SubSeq(s, 1, Len(s) - 1))
    ELSE s

\* str.strip(): leading and trailing whitespace removed.
Strip(s) == RStrip(LStrip(s))

\* str.split(sep): the pieces between the separators, empty pieces kept;
\* always at least one piece.
RECURSIVE SplitOn(_, _)
SplitOn(s, sep) ==
    IF \A i \in 1..Len(s) : s[i] # sep
    THEN <<s>>
    ELSE LET k == CHOOSE i \in 1..Len(s) :
                      s[i] = sep /\ \A j \in 1..(i - 1) : s[j] # sep
         IN  <<SubSeq(s, 1, k - 1)>> \o SplitOn(SubSeq(s, k + 1, Len(s)), sep)

\* str.split(): the maximal runs of non-whitespace, in order.
RECURSIVE SplitWS(_)
SplitWS(s) ==
    LET t == LStrip(s)
    IN  IF t = <<>>
        THEN <<>>
        ELSE LET ends == {i \in 1..Len(t) : t[i] \in Whitespace}
                 k    == IF ends = {} THEN Len(t) + 1
                         ELSE CHOOSE i \in ends : \A j \in ends : i <= j
             IN  <<SubSeq(t, 1, k - 1)>> \o SplitWS(SubSeq(t, k, Len(t)))

(***************************************************************************)
(* Command Runner: GitPulse._run_git (lines 144-171).                      *)
(* subprocess.run either returns a CompletedProcess (the tool ran and      *)
(* exited) or raises; the exceptions are those of launching a process and  *)
(* waiting for it, all subclasses of Exception.                            *)
(***************************************************************************)
ExitNotFound == 127
ExitFailure == 1

ExcParent ==
    [ TimeoutExpired    |-> "SubprocessError",
      SubprocessError   |-> "Exception",
      FileNotFoundError |-> "OSError",
      PermissionError   |-> "OSError",
      OSError           |-> "Exception",
      ValueError        |-> "Exception",
      Exception         |-> "BaseException" ]

\* isinstance(exc, cls) over the class hierarchy.
RECURSIVE IsInstance(_, _)
IsInstance(exc, cls) ==
    \/ exc = cls
    \/ exc \in DOMAIN ExcParent /\ IsInstance(ExcParent[exc], cls)

Exited(out, err, rc) ==
    [kind |-> "exit", stdout |-> out, stderr |-> err, rc |-> rc,
     exc |-> "", msg |-> <<>>]

Raises(exc, msg) ==
    [kind |-> "raise", stdout |-> <<>>, stderr |-> <<>>, rc |-> 0,
     exc |-> exc, msg |-> msg]

Returned(out, err, rc) ==
    [raised |-> FALSE, exc |-> "", out |-> out, err |-> err, rc |-> rc]

Propagated(exc) ==
    [raised |-> TRUE, exc |-> exc, out |-> <<>>, err |-> <<>>, rc |-> 0]

\* The except clauses, first match first.
RunGit_NoCatchAll(p) ==
    IF p.kind = "exit"
    THEN Returned(Strip(p.stdout), Strip(p.stderr), p.rc)
    ELSE IF IsInstance(p.exc, "TimeoutExpired")
    THEN Returned(<<>>, <<"Command timed out">>, ExitFailure)
    ELSE IF IsInstance(p.exc, "FileNotFoundError")
    THEN Returned(<<>>, <<"git not found in PATH">>, ExitNotFound)
    ELSE Propagated(p.exc)

RunGit(p) ==
    IF p.kind = "exit"
    THEN Returned(Strip(p.stdout), Strip(p.stderr), p.rc)
    ELSE IF IsInstance(p.exc, "TimeoutExpired")
    THEN Returned(<<>>, <<"Command timed out">>, ExitFailure)
    ELSE IF IsInstance(p.exc, "FileNotFoundError")
    THEN Returned(<<>>, <<"git not found in PATH">>, ExitNotFound)
    ELSE IF IsInstance(p.exc, "Exception")
    THEN Returned(<<>>, p.msg, ExitFailure)
    ELSE Propagated(p.exc)

(***************************************************************************)
(* SpecRunGit: _run_git against every behaviour of the launched command.   *)
(***************************************************************************)
RECURSIVE TextsUpTo(_, _)
\* The texts over the tokens of `alphabet` of length at most n.
TextsUpTo(alphabet, n) ==
    IF n = 0 THEN {<<>>}
    ELSE LET shorter == TextsUpTo(alphabet, n - 1)
         IN  shorter \cup {Append(t, c) : t \in shorter, c \in alphabet}

RunOutputs == TextsUpTo({" ", NL, "x"}, MaxText)
RunErrors == {<<>>, <<"fatal", NL>>, <<" ", "warning", ":", " ", "w">>}
RunExitCodes == {0, 1, 128, -9}
RunExceptions ==
    {"TimeoutExpired", "FileNotFoundError", "PermissionError", "OSError",
     "ValueError"}
RunMessages == {<<>>, <<"[Errno 13] Permission denied: 'git'">>}

RunGitInit ==
    /\ \/ \E out \in RunOutputs, err \in RunErrors, rc \in RunExitCodes :
            proc = Exited(out, err, rc)
       \/ \E exc \in RunExceptions, msg \in RunMessages :
            proc = Raises(exc, msg)
    /\ ret = <<>>
    /\ hstatus = Idle /\ hresult = Idle
    /\ pcodes = Idle /\ pout = Idle
    /\ gin = Idle /\ gout = Idle
    /\ lfs = Idle /\ lmax = Idle /\ lout = Idle
    /\ sarg = Idle /\ sfs = Idle /\ scan = Idle

\* stdout, stderr, rc = self._run_git(repo_path, *args)
CallRunGit ==
    /\ ret = <<>>
    /\ ret' = <<RunGit(proc)>>
    /\ UNCHANGED <<proc, healthVars, porcelainVars, extractVars, locateVars, scanVars>>

RunGitNext == CallRunGit

SpecRunGit == RunGitInit /\ [][RunGitNext]_vars

(***************************************************************************)
(* Claims about the Command Runner, checked under SpecRunGit.              *)
(***************************************************************************)
\* `inner` is `outer` without its leading and trailing whitespace.
IsStrippedFormOf(inner, outer) ==
    /\ inner = <<>> \/ (inner[1] \notin Whitespace /\ inner[Len(inner)] \notin Whitespace)
    /\ \E lead \in 0..Len(outer) :
          /\ lead + Len(inner) <= Len(outer)
          /\ SubSeq(outer, lead + 1, lead + Len(inner)) = inner
          /\ \A i \in 1..Len(outer) :
                (i <= lead \/ i > lead + Len(inner)) => outer[i] \in Whitespace

\* C9: _run_git never raises to its caller: a timeout returns
\* ("", diagnostic, 1), a missing executable ("", diagnostic, 127), any other
\* launch failure ("", diagnostic, 1); a tool that ran and exited has its
\* exit code passed through with stdout and stderr stripped of surrounding
\* whitespace; every failure outcome has an empty output and a non-zero code.
C9_RunGitNeverRaises ==
    ret # <<>> =>
        LET r == ret[1]
        IN  /\ ~r.raised
            /\ proc.kind = "raise" =>
                  /\ r.out = <<>>
                  /\ r.rc # 0
                  /\ r.rc = (IF proc.exc = "FileNotFoundError" THEN 127 ELSE 1)
                  /\ proc.exc = "TimeoutExpired" => r.err = <<"Command timed out">>
                  /\ proc.exc = "FileNotFoundError" => r.err = <<"git not found in PATH">>
                  /\ proc.exc \notin {"TimeoutExpired", "FileNotFoundError"} =>
                        r.err = proc.msg
            /\ proc.kind = "exit" =>
                  /\ r.rc = proc.rc
                  /\ IsStrippedFormOf(r.out, proc.stdout)
                  /\ IsStrippedFormOf(r.err, proc.stderr)

\* A launch failure that is neither a timeout nor a missing executable has
\* been turned into a return value.
C9_Witness ==
    /\ ret # <<>>
    /\ proc.kind = "raise"
    /\ proc.exc = "PermissionError"
    /\ ret[1].rc = 1


(***************************************************************************)
(* Working-tree step of GitPulse._get_repo_status (lines 249-275): the     *)
(* porcelain v1 listing, one "XY path" line per changed path.              *)
(***************************************************************************)
NoCounts ==
    [staged |-> 0, modified |-> 0, untracked |-> 0, deleted |-> 0, conflict |-> 0]

Bump(c, cond, field) == IF cond THEN [c EXCEPT ![field] = @ + 1] ELSE c

\* The body of the loop for one line with len(line) >= 2 (lines 254-267).
ClassifyLine_Exclusive(c, line) ==
    LET x == line[1]
        y == line[2]
    IN  IF x = "?" /\ y = "?"
        THEN Bump(c, TRUE, "untracked")
        ELSE IF x = "U" \/ y = "U" \/ (x = "A" /\ y = "A") \/ (x = "D" /\ y = "D")
        THEN Bump(c, TRUE, "conflict")
        ELSE IF x \in {"A", "M", "R", "C"} THEN Bump(c, TRUE, "staged")
        ELSE IF x = "D" THEN Bump(c, TRUE, "deleted")
        ELSE IF y = "M" THEN Bump(c, TRUE, "modified")
        ELSE Bump(c, y = "D", "deleted")

ClassifyLine_ConflictFallsThrough(c, line) ==
    LET x == line[1]
        y == line[2]
    IN  IF x = "?" /\ y = "?"
        THEN Bump(c, TRUE, "untracked")
        ELSE LET c0 == Bump(c, x = "U" \/ y = "U" \/ (x = "A" /\ y = "A")
                                  \/ (x = "D" /\ y = "D"), "conflict")
                 c1 == Bump(c0, x \in {"A", "M", "R", "C"}, "staged")
                 c2 == Bump(c1, x = "D", "deleted")
                 c3 == Bump(c2, y = "M", "modified")
             IN  Bump(c3, y = "D", "deleted")

ClassifyLine(c, line) ==
    LET x == line[1]
        y == line[2]
    IN  IF x = "?" /\ y = "?"
        THEN Bump(c, TRUE, "untracked")
        ELSE IF x = "U" \/ y = "U" \/ (x = "A" /\ y = "A") \/ (x = "D" /\ y = "D")
        THEN Bump(c, TRUE, "conflict")
        ELSE LET c1 == Bump(c, x \in {"A", "M", "R", "C"}, "staged")
                 c2 == Bump(c1, x = "D", "deleted")
                 c3 == Bump(c2, y = "M", "modified")
             IN  Bump(c3, y = "D", "deleted")

\* for line in stdout.split("\n"): if len(line) >= 2: ...
RECURSIVE CountLines(_, _)
CountLines(c, lines) ==
    IF lines = <<>>
    THEN c
    ELSE CountLines(IF Len(Head(lines)) >= 2 THEN ClassifyLine(c, Head(lines)) ELSE c,
                    Tail(lines))

\* if rc == 0 and stdout: (the loop)
ParsePorcelain(r) ==
    IF r.rc = 0 /\ r.out # <<>>
    THEN CountLines(NoCounts, SplitOn(r.out, NL))
    ELSE NoCounts

\* status.is_dirty = (... > 0 or ... > 0 ...)
IsDirty_NoConflicts(c) ==
    c.staged > 0 \/ c.modified > 0 \/ c.untracked > 0 \/ c.deleted > 0

IsDirty(c) ==
    c.staged > 0 \/ c.modified > 0 \/ c.untracked > 0 \/ c.deleted > 0
        \/ c.conflict > 0

(***************************************************************************)
(* SpecPorcelain: the working-tree step against every listing git emits    *)
(* for up to MaxLines changed paths.  git writes each line as the two code  *)
(* characters, a space, the path and a newline.                            *)
(***************************************************************************)
StatusChars == {" ", "?", "!", "U", "A", "D", "M", "R", "C"}
\* Every two-character code but the blank one, which git never lists.
StatusCodes == {<<x, y>> : x \in StatusChars, y \in StatusChars} \ {<<" ", " ">>}

RECURSIVE EmitPorcelain(_)
\* What `git status --porcelain=v1` writes for the codes.
EmitPorcelain(codes) ==
    IF codes = <<>> THEN <<>>
    ELSE <<Head(codes)[1], Head(codes)[2], " ", "path", NL>>
            \o EmitPorcelain(Tail(codes))

PorcelainInit ==
    /\ \E n \in 0..MaxLines : pcodes \in [1..n -> StatusCodes]
    /\ pout = <<>>
    /\ hstatus = Idle /\ hresult = Idle
    /\ proc = Idle /\ ret = Idle
    /\ gin = Idle /\ gout = Idle
    /\ lfs = Idle /\ lmax = Idle /\ lout = Idle
    /\ sarg = Idle /\ sfs = Idle /\ scan = Idle

\* stdout, _, rc = self._run_git(repo_path, "status", "--porcelain=v1")
\* followed by the loop over its lines.
StatusStep ==
    /\ pout = <<>>
    /\ LET r == RunGit(Exited(EmitPorcelain(pcodes), <<>>, 0))
       IN  pout' = <<[stdout |-> r.out, counts |-> ParsePorcelain(r)]>>
    /\ UNCHANGED <<pcodes, healthVars, runVars, extractVars, locateVars, scanVars>>

PorcelainNext == StatusStep

SpecPorcelain == PorcelainInit /\ [][PorcelainNext]_vars

(***************************************************************************)
(* Claims about the classification, checked under SpecPorcelain.           *)
(***************************************************************************)
\* The classes of C4, for a line whose first two characters are x and y.
C4_Untracked(x, y) == x = "?" /\ y = "?"
C4_Conflict(x, y) ==
    /\ ~C4_Untracked(x, y)
    /\ x = "U" \/ y = "U" \/ <<x, y>> = <<"A", "A">> \/ <<x, y>> = <<"D", "D">>
C4_Plain(x, y) == ~C4_Untracked(x, y) /\ ~C4_Conflict(x, y)

\* The lines the loop classifies: those of the output handed to it that hold
\* a two-character code.
C4_Lines(stdout) ==
    LET all == IF stdout = <<>> THEN <<>> ELSE SplitOn(stdout, NL)
    IN  SelectSeq(all, LAMBDA l : Len(l) >= 2)

C4_Count(lines, P(_, _)) ==
    Cardinality({i \in 1..Len(lines) : P(lines[i][1], lines[i][2])})

\* C4: a line with code (x,y) adds one to untracked only if x = y = "?";
\* otherwise one to conflict only if x = U or y = U or xy = AA or xy = DD;
\* otherwise, independently, one to staged if x is A, M, R or C, one to
\* deleted if x = D, one to modified if y = M, one to deleted if y = D.  The
\* counters after a listing are the sums of these increments over its lines.
C4_CountersAreSumOfClasses ==
    pout # <<>> =>
        LET ls == C4_Lines(pout[1].stdout)
            c  == pout[1].counts
        IN  /\ c.untracked = C4_Count(ls, C4_Untracked)
            /\ c.conflict = C4_Count(ls, C4_Conflict)
            /\ c.staged = C4_Count(ls,
                   LAMBDA x, y : C4_Plain(x, y) /\ x \in {"A", "M", "R", "C"})
            /\ c.modified = C4_Count(ls, LAMBDA x, y : C4_Plain(x, y) /\ y = "M")
            /\ c.deleted =
                   C4_Count(ls, LAMBDA x, y : C4_Plain(x, y) /\ x = "D")
                 + C4_Count(ls, LAMBDA x, y : C4_Plain(x, y) /\ y = "D")

\* A listing whose second line is MM has been counted: the line is in both
\* the staged and the modified count.
C4_Witness ==
    /\ pout # <<>>
    /\ Len(pcodes) = 2
    /\ pcodes[2] = <<"M", "M">>
    /\ pout[1].counts.staged >= 1
    /\ pout[1].counts.modified >= 1


\* C17: end to end through _run_git, the five counters equal the sums of
\* the per-line classes over the lines as git emitted them: a line " M" adds
\* to modified and not to staged wherever it stands in the listing.
C17_CountersOfEmittedLines ==
    pout # <<>> =>
        LET c == pout[1].counts
        IN  /\ c.untracked = C4_Count(pcodes, C4_Untracked)
            /\ c.conflict = C4_Count(pcodes, C4_Conflict)
            /\ c.staged = C4_Count(pcodes,
                   LAMBDA x, y : C4_Plain(x, y) /\ x \in {"A", "M", "R", "C"})
            /\ c.modified =
                   C4_Count(pcodes, LAMBDA x, y : C4_Plain(x, y) /\ y = "M")
            /\ c.deleted =
                   C4_Count(pcodes, LAMBDA x, y : C4_Plain(x, y) /\ x = "D")
                 + C4_Count(pcodes, LAMBDA x, y : C4_Plain(x, y) /\ y = "D")


C23_Sum(c) == c.staged + c.modified + c.untracked + c.deleted + c.conflict

\* C23 as stated: one status line increments at most one of the five
\* counters, so their sum never exceeds the number of status lines.
C23_AsStated ==
    pout # <<>> => C23_Sum(pout[1].counts) <= Len(pcodes)

\* C23: one status line increments untracked alone, or conflict alone, or
\* else each of staged, modified and deleted at most once and at most two
\* of them; the sum of the five counters never exceeds twice the number of
\* status lines less the untracked and conflict counts.
C23_AtMostTwoPerLine ==
    pout # <<>> =>
        LET ls == C4_Lines(pout[1].stdout)
            c  == pout[1].counts
        IN  /\ Len(ls) <= Len(pcodes)
            /\ C23_Sum(c) <= 2 * Len(ls) - (c.untracked + c.conflict)
            /\ \A i \in 1..Len(ls) :
                  LET d == ClassifyLine(NoCounts, ls[i])
                  IN  /\ \A f \in DOMAIN d : d[f] <= 1
                      /\ C23_Sum(d) <= 2
                      /\ (d.untracked = 1 \/ d.conflict = 1) => C23_Sum(d) = 1

\* A listing of the single line AD has been counted: the path is in the
\* staged and in the deleted count.
C23_Witness ==
    /\ pout # <<>>
    /\ pcodes = <<<<"A", "D">>>>
    /\ pout[1].counts.staged = 1
    /\ pout[1].counts.deleted = 1
    /\ C23_Sum(pout[1].counts) = 2


(***************************************************************************)
(* Repository Locator: GitPulse._find_repos (lines 173-207).               *)
(* A directory tree is a set of entries <<path, kind>>; the kinds are      *)
(* "dir", "file", "locked", a directory that may not be searched, so that  *)
(* looking for its marker raises PermissionError, and "denied", an entry   *)
(* that may not be examined, so that is_dir() raises on it (Path.is_dir    *)
(* re-raises every OSError but a missing path), and "loop", a symbolic     *)
(* link to the directory that holds it.  The marker is an entry named      *)
(* ".git".                                                                 *)
(***************************************************************************)
Marker == ".git"
SkipList ==
    {"node_modules", "__pycache__", "venv", ".venv", "env", ".env", "vendor",
     "build", "dist", "target"}
\* The names of the model's trees, in the order sorted() puts them.
NameOrder == <<".cache", ".git", "a", "b", "build", "work">>
\* The place of a name in that order: str comparison of two names.
NameRank(n) == CHOOSE i \in 1..Len(NameOrder) : NameOrder[i] = n
EntryNames == {".cache", ".git", "a", "b", "build"}
\* name.startswith(".")
StartsWithDot(name) == name \in {".cache", ".git", ".venv", ".env"}
\* The resolved root of the scan.
ScanRoot == <<"work">>

\* The directory a path leads to: a "loop" entry is a link to the
\* directory that holds it, so the segment naming it adds nothing.
RECURSIVE Resolve(_, _)
Resolve(fs, path) ==
    IF Len(path) <= 1 \/ \A e \in fs : e[2] # "loop"
    THEN path
    ELSE LET parent == Resolve(fs, SubSeq(path, 1, Len(path) - 1))
             entry  == Append(parent, path[Len(path)])
         IN  IF <<entry, "loop">> \in fs THEN parent ELSE entry

\* What stat() finds at the path, links followed.
Kind(fs, path) ==
    LET p == Resolve(fs, path)
    IN  IF p = ScanRoot THEN "dir"
        ELSE IF \E e \in fs : e[1] = p
        THEN (CHOOSE e \in fs : e[1] = p)[2]
        ELSE "absent"

\* sorted(root.iterdir()), by name.
SortedEntries(fs, root) ==
    SelectSeq(NameOrder, LAMBDA n : Kind(fs, Append(root, n)) # "absent")

\* entry.is_dir()
IsDir(fs, path) == Kind(fs, path) \in {"dir", "locked"}

Found(repos, call) == [repos |-> repos, calls |-> <<call>>]

RECURSIVE FindRepos(_, _, _, _)
RECURSIVE WalkEntries(_, _, _, _, _, _)
RECURSIVE WalkEntries_NoSkipList(_, _, _, _, _, _)
WalkEntries_NoSkipList(fs, max_depth, root, depth, names, acc) ==
    IF names = <<>>
    THEN acc
    ELSE IF Kind(fs, Append(root, Head(names))) = "denied"
    THEN acc
    ELSE LET name  == Head(names)
             entry == Append(root, name)
             sub   == IF IsDir(fs, entry) /\ name # Marker
                      THEN FindRepos(fs, max_depth, entry, depth + 1)
                      ELSE [repos |-> <<>>, calls |-> <<>>]
         IN  WalkEntries_NoSkipList(fs, max_depth, root, depth, Tail(names),
                         [repos |-> acc.repos \o sub.repos,
                          calls |-> acc.calls \o sub.calls])

\* The for loop of lines 194-201 over the entries left, `acc` what the
\* call has gathered so far.  entry.is_dir() raises on an entry that may
\* not be examined: the exception leaves the loop for the except clauses
\* of lines 202-205 and the call returns what it has gathered.
WalkEntries(fs, max_depth, root, depth, names, acc) ==
    IF names = <<>>
    THEN acc
    ELSE IF Kind(fs, Append(root, Head(names))) = "denied"
    THEN acc
    ELSE LET name  == Head(names)
             entry == Append(root, name)
             sub   == IF /\ IsDir(fs, entry)
                         /\ ~StartsWithDot(name)
                         /\ name \notin SkipList
                      THEN FindRepos(fs, max_depth, entry, depth + 1)
                      ELSE [repos |-> <<>>, calls |-> <<>>]
         IN  WalkEntries(fs, max_depth, root, depth, Tail(names),
                         [repos |-> acc.repos \o sub.repos,
                          calls |-> acc.calls \o sub.calls])

FindRepos_OneLevelMore(fs, max_depth, root, depth) ==
    LET call == [path |-> root, depth |-> depth]
    IN  IF depth > max_depth + 1
        THEN Found(<<>>, call)
        ELSE IF Kind(fs, root) = "locked"
        THEN Found(<<>>, call)
        ELSE IF Kind(fs, Append(root, Marker)) = "dir"
        THEN Found(<<root>>, call)
        ELSE WalkEntries(fs, max_depth, root, depth, SortedEntries(fs, root),
                         Found(<<>>, call))

FindRepos_StopsAtMaxDepth(fs, max_depth, root, depth) ==
    LET call == [path |-> root, depth |-> depth]
    IN  IF depth >= max_depth
        THEN Found(<<>>, call)
        ELSE IF Kind(fs, root) = "locked"
        THEN Found(<<>>, call)
        ELSE IF Kind(fs, Append(root, Marker)) = "dir"
        THEN Found(<<root>>, call)
        ELSE WalkEntries(fs, max_depth, root, depth, SortedEntries(fs, root),
                         Found(<<>>, call))

FindRepos_IntoRepos(fs, max_depth, root, depth) ==
    LET call == [path |-> root, depth |-> depth]
    IN  IF depth > max_depth
        THEN Found(<<>>, call)
        ELSE IF Kind(fs, root) = "locked"
        THEN Found(<<>>, call)
        ELSE WalkEntries(fs, max_depth, root, depth, SortedEntries(fs, root),
                         Found(IF Kind(fs, Append(root, Marker)) = "dir"
                               THEN <<root>> ELSE <<>>, call))

\* The paths of the repositories found, and every call made (path, depth),
\* in order.
FindRepos(fs, max_depth, root, depth) ==
    LET call == [path |-> root, depth |-> depth]
    IN  IF depth > max_depth
        THEN Found(<<>>, call)
        ELSE IF Kind(fs, root) = "locked"
        THEN Found(<<>>, call)
        ELSE IF Kind(fs, Append(root, Marker)) = "dir"
        THEN Found(<<root>>, call)
        ELSE WalkEntries(fs, max_depth, root, depth, SortedEntries(fs, root),
                         Found(<<>>, call))

(***************************************************************************)
(* SpecLocate: the tree is grown entry by entry, then _find_repos walks    *)
(* it once.                                                                *)
(***************************************************************************)
LocateInit ==
    /\ lfs = {}
    /\ lmax \in 1..MaxDepth
    /\ lout = <<>>
    /\ hstatus = Idle /\ hresult = Idle
    /\ proc = Idle /\ ret = Idle
    /\ pcodes = Idle /\ pout = Idle
    /\ gin = Idle /\ gout = Idle
    /\ sarg = Idle /\ sfs = Idle /\ scan = Idle

\* What an entry of each name is created as.
EntryKinds ==
    [ n \in EntryNames |->
        CASE n = ".cache" -> {"dir"}
          [] n = ".git"   -> {"dir", "file"}
          [] n = "a"      -> {"dir", "file", "locked", "denied"}
          [] n = "b"      -> {"dir", "locked"}
          [] n = "build"  -> {"dir"} ]

\* The environment creates one entry in a directory of the tree; nothing is
\* created inside a marker.
MakeEntry ==
    /\ lout = <<>>
    /\ Cardinality(lfs) < MaxEntries
    /\ \E parent \in {ScanRoot} \cup
                       {e[1] : e \in {d \in lfs : d[2] \in {"dir", "locked"}}},
          name \in EntryNames :
          \E kind \in EntryKinds[name] :
            /\ parent[Len(parent)] # Marker
            /\ Kind(lfs, Append(parent, name)) = "absent"
            /\ lfs' = lfs \cup {<<Append(parent, name), kind>>}
    /\ UNCHANGED <<lmax, lout, healthVars, runVars, porcelainVars, extractVars, scanVars>>

\* repo_paths = self._find_repos(root), for a root that is a directory of
\* the tree and not a marker, and that can be reached: every directory
\* above it can be searched.
Locate ==
    /\ lout = <<>>
    /\ \E root \in {ScanRoot} \cup
                     {e[1] : e \in {d \in lfs : d[2] \in {"dir", "locked"}}} :
          /\ root[Len(root)] # Marker
          /\ \A n \in 1..(Len(root) - 1) : Kind(lfs, SubSeq(root, 1, n)) = "dir"
          /\ lout' = <<FindRepos(lfs, lmax, root, 0)>>
    /\ UNCHANGED <<lfs, lmax, healthVars, runVars, porcelainVars, extractVars, scanVars>>

LocateNext == MakeEntry \/ Locate

SpecLocate == LocateInit /\ [][LocateNext]_vars

(***************************************************************************)
(* Claims about the Repository Locator, checked under SpecLocate.          *)
(***************************************************************************)
IsProperPrefix(p, q) == Len(p) < Len(q) /\ SubSeq(q, 1, Len(p)) = p

\* C10: the locator never recurses into a repository root: no directory
\* below a returned path is ever examined, no returned path is a proper
\* ancestor of another returned path, and no path is returned twice.
C10_NoDescentIntoRepos ==
    lout # <<>> =>
        LET repos == lout[1].repos
            calls == lout[1].calls
        IN  /\ \A i \in 1..Len(repos), j \in 1..Len(calls) :
                  ~IsProperPrefix(repos[i], calls[j].path)
            /\ \A i, j \in 1..Len(repos) : ~IsProperPrefix(repos[i], repos[j])
            /\ \A i, j \in 1..Len(repos) : repos[i] = repos[j] => i = j

\* A repository nested in a repository: the outer one has been returned, the
\* inner one, within the depth limit, has not.
C10_Witness ==
    /\ lout # <<>>
    /\ Kind(lfs, <<"work", "a", ".git">>) = "dir"
    /\ Kind(lfs, <<"work", "a", "b", ".git">>) = "dir"
    /\ lmax >= 2
    /\ lout[1].repos = << <<"work", "a">> >>


LocateRoot == lout[1].calls[1].path
SkippedName(n) == n \in SkipList \/ StartsWithDot(n)
LastName(path) == path[Len(path)]

\* C11 as stated: the locator never visits a directory whose name is in the
\* skip-list or starts with a dot, and no returned path has such a name in
\* a segment the locator visited.
C11_AsStated ==
    lout # <<>> =>
        LET repos == lout[1].repos
            calls == lout[1].calls
        IN  /\ \A j \in 1..Len(calls) : ~SkippedName(LastName(calls[j].path))
            /\ \A i \in 1..Len(repos) :
                  \A k \in Len(LocateRoot)..Len(repos[i]) :
                      ~SkippedName(repos[i][k])

\* C11: below the root it is called on, the locator never visits a
\* directory whose name is in the skip-list or starts with a dot, whatever
\* depth remains; no returned path has such a name in a segment below the
\* root, even when that directory holds a marker.  The root itself is
\* visited whatever its name.
C11_NoSkippedNameBelowRoot ==
    lout # <<>> =>
        LET repos == lout[1].repos
            calls == lout[1].calls
        IN  /\ \A j \in 2..Len(calls) : ~SkippedName(LastName(calls[j].path))
            /\ \A i \in 1..Len(repos) :
                  \A k \in (Len(LocateRoot) + 1)..Len(repos[i]) :
                      ~SkippedName(repos[i][k])

\* A repository in a skip-listed directory and one in a hidden directory,
\* both within the depth limit of a walk from the top, are not returned.
C11_Witness ==
    /\ lout # <<>>
    /\ LocateRoot = ScanRoot
    /\ Kind(lfs, <<"work", "build", ".git">>) = "dir"
    /\ Kind(lfs, <<"work", ".cache", ".git">>) = "dir"
    /\ lout[1].repos = <<>>

\* A directory that holds a marker directory.
IsRepoRoot(fs, path) ==
    IsDir(fs, path) /\ Kind(fs, Append(path, Marker)) = "dir"
IsPrefix(p, q) == p = q \/ IsProperPrefix(p, q)
\* The directories of the tree at or below the root of the walk.
DirsUnder(fs, root) ==
    {root} \cup {e[1] : e \in {d \in fs : IsDir(fs, d[1]) /\ IsProperPrefix(root, d[1])}}
Reported(path) == \E i \in 1..Len(lout[1].repos) : lout[1].repos[i] = path
\* The directories strictly between the root and the path.
Between(root, path) ==
    {SubSeq(path, 1, n) : n \in (Len(root) + 1)..(Len(path) - 1)}

DeniedBefore(fs, path) ==
    \E n \in EntryNames :
        /\ NameRank(n) < NameRank(LastName(path))
        /\ Kind(fs, Append(SubSeq(path, 1, Len(path) - 1), n)) = "denied"

C27_Failing(fs) == {e[1] : e \in {d \in fs : d[2] \in {"locked", "denied"}}}

\* The tree without the failures: what lies below a failing entry is gone
\* and the entry itself is a plain file, which contributes nothing.
C27_Pruned(fs) ==
    {e \in fs : e[1] \notin C27_Failing(fs)
                  /\ \A f \in C27_Failing(fs) : ~IsProperPrefix(f, e[1])}
    \cup {<<f, "file">> : f \in {g \in C27_Failing(fs) :
                               \A h \in C27_Failing(fs) : ~IsProperPrefix(h, g)}}

\* C27: a directory that fails to be examined or enumerated contributes no
\* repository, and every repository of the rest of the tree that would be
\* found without the failure is returned: the result is that of the walk
\* over the tree without the failing subtrees.
C27_FailureCostsOnlyItsSubtree ==
    lout # <<>> =>
        lout[1].repos = FindRepos(C27_Pruned(lfs), lmax, LocateRoot, 0).repos

\* The same for trees whose only failures are directories that may not be
\* searched.
C27_LockedCostsOnlyItsSubtree ==
    (lout # <<>> /\ \A e \in lfs : e[2] # "denied") =>
        lout[1].repos = FindRepos(C27_Pruned(lfs), lmax, LocateRoot, 0).repos

\* A repository found although the directory listed before it may not be
\* searched.
C27_LockedWitness ==
    /\ lout # <<>>
    /\ LocateRoot = ScanRoot
    /\ Kind(lfs, <<"work", "a">>) = "locked"
    /\ Kind(lfs, <<"work", "a", ".git">>) = "dir"
    /\ lout[1].repos = << <<"work", "b">> >>


(***************************************************************************)
(* RepoStatus (dataclass, lines 53-84): the defaults of its fields.  A     *)
(* path is the sequence of its segments, a name is one segment.            *)
(***************************************************************************)
DefaultStatus(name, path) ==
    [ name |-> name, path |-> path, current_branch |-> <<>>,
      staged_count |-> 0, modified_count |-> 0, untracked_count |-> 0,
      deleted_count |-> 0, conflict_count |-> 0, stash_count |-> 0,
      ahead |-> 0, behind |-> 0, has_remote |-> FALSE, remote_url |-> <<>>,
      last_commit_date |-> <<>>, last_commit_age_days |-> 0,
      last_commit_message |-> <<>>, total_commits |-> 0, branch_count |-> 0,
      tag_count |-> 0, is_dirty |-> FALSE, is_detached |-> FALSE,
      health_score |-> 100, health_grade |-> "A", issues |-> <<>>,
      error |-> <<>> ]

(***************************************************************************)
(* Health Scorer: GitPulse._calculate_health (lines 359-446).              *)
(* An issue string is a tuple of its fixed text and the numbers formatted   *)
(* into it.                                                                *)
(***************************************************************************)
InitialScore == 100
PenaltyNoRemote == 15
PenaltyUncommitted == 10
PenaltyUntracked == 5
PenaltyDeleted == 5
PenaltyBehind == 10
PenaltyUnpushed == 5
UnpushedLimit == 5
PenaltyVeryStale == 20
PenaltyStale == 10
VeryStaleDays == 90
StaleDays == 30
PenaltyDetached == 5
PenaltyConflict == 20
PenaltyNoCommits == 30
PenaltyStash == 3
GradeAMin == 90
GradeBMin == 80
GradeCMin == 70
GradeDMin == 60

\* score -= pts; issues.append(issue)
Deduct(acc, pts, issue) ==
    [score |-> acc.score - pts, issues |-> Append(acc.issues, issue)]

RuleNoRemote(acc, s) ==
    IF ~s.has_remote
    THEN Deduct(acc, PenaltyNoRemote, <<"No remote configured">>)
    ELSE acc

RuleUncommitted(acc, s) ==
    IF s.staged_count > 0 \/ s.modified_count > 0
    THEN Deduct(acc, PenaltyUncommitted,
                <<s.staged_count + s.modified_count, " uncommitted change(s)">>)
    ELSE acc

RuleUntracked(acc, s) ==
    IF s.untracked_count > 0
    THEN Deduct(acc, PenaltyUntracked, <<s.untracked_count, " untracked file(s)">>)
    ELSE acc

RuleDeleted(acc, s) ==
    IF s.deleted_count > 0
    THEN Deduct(acc, PenaltyDeleted, <<s.deleted_count, " deleted file(s)">>)
    ELSE acc

RuleBehind(acc, s) ==
    IF s.behind > 0
    THEN Deduct(acc, PenaltyBehind, <<s.behind, " commit(s) behind remote">>)
    ELSE acc

RuleUnpushed_AnyAhead(acc, s) ==
    IF s.ahead > 0
    THEN Deduct(acc, PenaltyUnpushed, <<s.ahead, " unpushed commit(s)">>)
    ELSE acc

RuleUnpushed(acc, s) ==
    IF s.ahead > 0 /\ s.ahead > UnpushedLimit
    THEN Deduct(acc, PenaltyUnpushed, <<s.ahead, " unpushed commit(s)">>)
    ELSE acc

RuleStale_Cumulative(acc, s) ==
    LET very == IF s.last_commit_age_days > VeryStaleDays
                THEN Deduct(acc, PenaltyVeryStale,
                            <<"Very stale: ", s.last_commit_age_days,
                              " days since last commit">>)
                ELSE acc
    IN  IF s.last_commit_age_days > StaleDays
        THEN Deduct(very, PenaltyStale,
                    <<"Stale: ", s.last_commit_age_days, " days since last commit">>)
        ELSE very

RuleStale(acc, s) ==
    IF s.last_commit_age_days > VeryStaleDays
    THEN Deduct(acc, PenaltyVeryStale,
                <<"Very stale: ", s.last_commit_age_days, " days since last commit">>)
    ELSE IF s.last_commit_age_days > StaleDays
    THEN Deduct(acc, PenaltyStale,
                <<"Stale: ", s.last_commit_age_days, " days since last commit">>)
    ELSE acc

RuleDetached(acc, s) ==
    IF s.is_detached
    THEN Deduct(acc, PenaltyDetached, <<"Detached HEAD state">>)
    ELSE acc

RuleConflict(acc, s) ==
    IF s.conflict_count > 0
    THEN Deduct(acc, PenaltyConflict, <<s.conflict_count, " merge conflict(s)">>)
    ELSE acc

RuleNoCommits(acc, s) ==
    IF s.total_commits = 0
    THEN Deduct(acc, PenaltyNoCommits, <<"No commits yet">>)
    ELSE acc

RuleStash(acc, s) ==
    IF s.stash_count > 0
    THEN Deduct(acc, PenaltyStash, <<s.stash_count, " stash(es) pending">>)
    ELSE acc

\* The rules in the order the code evaluates them (lines 382-431).
HealthRules(s) ==
    LET a0  == [score |-> InitialScore, issues |-> <<>>]
        a1  == RuleNoRemote(a0, s)
        a2  == RuleUncommitted(a1, s)
        a3  == RuleUntracked(a2, s)
        a4  == RuleDeleted(a3, s)
        a5  == RuleBehind(a4, s)
        a6  == RuleUnpushed(a5, s)
        a7  == RuleStale(a6, s)
        a8  == RuleDetached(a7, s)
        a9  == RuleConflict(a8, s)
        a10 == RuleNoCommits(a9, s)
    IN  RuleStash(a10, s)

\* score = max(0, score)
ClampScore_None(score) == score

ClampScore(score) == Max(0, score)

GradeOf_Strict(score) ==
    IF score > GradeAMin THEN "A"
    ELSE IF score > GradeBMin THEN "B"
    ELSE IF score > GradeCMin THEN "C"
    ELSE IF score > GradeDMin THEN "D"
    ELSE "F"

GradeOf(score) ==
    IF score >= GradeAMin THEN "A"
    ELSE IF score >= GradeBMin THEN "B"
    ELSE IF score >= GradeCMin THEN "C"
    ELSE IF score >= GradeDMin THEN "D"
    ELSE "F"

CalculateHealth(s) ==
    LET acc   == HealthRules(s)
        score == ClampScore(acc.score)
    IN  [score |-> score, grade |-> GradeOf(score), issues |-> acc.issues]

(***************************************************************************)
(* Status Extractor: GitPulse._get_repo_status (lines 213-357).            *)
(* `tool` maps each query to what subprocess.run does for it, `now` is the *)
(* clock in hours.  The extraction carries the record under construction   *)
(* and the queries issued so far.                                          *)
(***************************************************************************)
Q_VALID    == "rev-parse --git-dir"
Q_BRANCH   == "branch --show-current"
Q_SHORT    == "rev-parse --short HEAD"
Q_STATUS   == "status --porcelain=v1"
Q_REMOTE   == "remote -v"
Q_AHEAD    == "rev-list --left-right --count @{upstream}...HEAD"
Q_LOG      == "log -1 --format=%aI|||%s"
Q_COUNT    == "rev-list --count HEAD"
Q_BRANCHES == "branch --list"
Q_TAGS     == "tag --list"
Q_STASH    == "stash list"
Queries ==
    {Q_VALID, Q_BRANCH, Q_SHORT, Q_STATUS, Q_REMOTE, Q_AHEAD, Q_LOG, Q_COUNT,
     Q_BRANCHES, Q_TAGS, Q_STASH}

\* The separator of the log format, one token.
LogSep == "|||"
MessageLimit == 120
HoursPerDay == 24

Digits == {"0", "1", "2", "3", "4", "5", "6", "7", "8", "9"}
DigitValue ==
    [c \in Digits |->
        CASE c = "0" -> 0 [] c = "1" -> 1 [] c = "2" -> 2 [] c = "3" -> 3
          [] c = "4" -> 4 [] c = "5" -> 5 [] c = "6" -> 6 [] c = "7" -> 7
          [] c = "8" -> 8 [] c = "9" -> 9]

RECURSIVE DecimalValue(_)
DecimalValue(ds) ==
    IF ds = <<>> THEN 0
    ELSE 10 * DecimalValue(SubSeq(ds, 1, Len(ds) - 1)) + DigitValue[ds[Len(ds)]]

\* int(text): surrounding whitespace dropped, an optional sign, then digits;
\* anything else is a ValueError (ok = FALSE).
ParseInt(text) ==
    LET t      == Strip(text)
        signed == t # <<>> /\ t[1] \in {"-", "+"}
        body   == IF signed THEN Tail(t) ELSE t
    IN  IF body = <<>> \/ \E i \in 1..Len(body) : body[i] \notin Digits
        THEN [ok |-> FALSE, val |-> 0]
        ELSE [ok |-> TRUE,
              val |-> IF signed /\ t[1] = "-" THEN 0 - DecimalValue(body)
                      ELSE DecimalValue(body)]

\* The timestamps datetime.fromisoformat reads: the wall-clock reading in
\* hours and the UTC offset in hours when the text carries one.  Any other
\* text is a ValueError.
IsoDates ==
    [ d_day2_utc   |-> [wall |-> 48, offset |-> <<0>>],
      d_day9_utc   |-> [wall |-> 216, offset |-> <<0>>],
      d_day9_plus5 |-> [wall |-> 221, offset |-> <<5>>],
      d_day8_noon  |-> [wall |-> 204, offset |-> <<>>],
      d_day11_utc  |-> [wall |-> 264, offset |-> <<0>>] ]

ParseIsoDate(text) ==
    IF Len(text) = 1 /\ text[1] \in DOMAIN IsoDates
    THEN <<IsoDates[text[1]]>>
    ELSE <<>>

\* (now - commit_dt).days, a naive commit_dt read as UTC: the floor of the
\* elapsed time in days.
AgeDays(now, dt) ==
    LET instant == IF dt.offset = <<>> THEN dt.wall ELSE dt.wall - dt.offset[1]
    IN  (now - instant) \div HoursPerDay

NonEmptyLines_CountsBlank(out) == Len(SplitOn(out, NL))

\* len([l for l in stdout.split("\n") if l.strip()])
NonEmptyLines(out) ==
    Len(SelectSeq(SplitOn(out, NL), LAMBDA l : Strip(l) # <<>>))

NewExtraction(path) ==
    [status |-> DefaultStatus(path[Len(path)], path), queries |-> <<>>]

Asked(st, q) == [st EXCEPT !.queries = Append(@, q)]

\* Lines 228-234: the validity check and the record returned when it fails.
InvalidRepo(st, r) ==
    [st EXCEPT !.status.error = <<"Not a valid git repo: ">> \o r.err,
               !.status.health_score = 0,
               !.status.health_grade = "F"]

StepBranch_Retries(st0, tool) ==
    LET r  == RunGit(tool[Q_BRANCH])
        st == IF r.rc = 0 /\ r.out # <<>> THEN Asked(st0, Q_BRANCH)
              ELSE Asked(Asked(st0, Q_BRANCH), Q_BRANCH)
    IN  IF r.rc = 0 /\ r.out # <<>>
        THEN [st EXCEPT !.status.current_branch = r.out]
        ELSE LET r2  == RunGit(tool[Q_SHORT])
                 st2 == Asked(st, Q_SHORT)
             IN  IF r2.rc = 0
                 THEN [st2 EXCEPT
                         !.status.current_branch =
                             <<"(detached at ">> \o r2.out \o <<")">>,
                         !.status.is_detached = TRUE]
                 ELSE [st2 EXCEPT !.status.current_branch = <<"(unknown)">>]

\* Lines 236-247: current branch.
StepBranch(st0, tool) ==
    LET r  == RunGit(tool[Q_BRANCH])
        st == Asked(st0, Q_BRANCH)
    IN  IF r.rc = 0 /\ r.out # <<>>
        THEN [st EXCEPT !.status.current_branch = r.out]
        ELSE LET r2  == RunGit(tool[Q_SHORT])
                 st2 == Asked(st, Q_SHORT)
             IN  IF r2.rc = 0
                 THEN [st2 EXCEPT
                         !.status.current_branch =
                             <<"(detached at ">> \o r2.out \o <<")">>,
                         !.status.is_detached = TRUE]
                 ELSE [st2 EXCEPT !.status.current_branch = <<"(unknown)">>]

\* Lines 249-275: the working-tree counters and is_dirty.
StepStatus(st0, tool) ==
    LET r  == RunGit(tool[Q_STATUS])
        st == Asked(st0, Q_STATUS)
        c  == ParsePorcelain(r)
    IN  [st EXCEPT !.status.staged_count = c.staged,
                   !.status.modified_count = c.modified,
                   !.status.untracked_count = c.untracked,
                   !.status.deleted_count = c.deleted,
                   !.status.conflict_count = c.conflict,
                   !.status.is_dirty = IsDirty(c)]

\* Lines 277-287: remote presence and the first remote's URL.
StepRemote(st0, tool) ==
    LET r  == RunGit(tool[Q_REMOTE])
        st == Asked(st0, Q_REMOTE)
    IN  IF r.rc = 0 /\ r.out # <<>>
        THEN LET parts == SplitWS(SplitOn(r.out, NL)[1])
             IN  [st EXCEPT !.status.has_remote = TRUE,
                            !.status.remote_url =
                                IF Len(parts) >= 2 THEN parts[2] ELSE @]
        ELSE [st EXCEPT !.status.has_remote = FALSE]

StepAheadBehind_Unguarded(st0, tool) ==
    LET r     == RunGit(tool[Q_AHEAD])
        st    == Asked(st0, Q_AHEAD)
        parts == SplitWS(r.out)
    IN  IF r.rc = 0 /\ r.out # <<>> /\ Len(parts) = 2
        THEN LET left  == ParseInt(parts[1])
                 right == ParseInt(parts[2])
             IN  IF ~left.ok THEN st
                 ELSE IF ~right.ok
                 THEN [st EXCEPT !.status.behind = left.val]
                 ELSE [st EXCEPT !.status.behind = left.val,
                                 !.status.ahead = right.val]
        ELSE st

\* Lines 289-302: ahead/behind; behind is assigned before int(parts[1]) runs.
StepAheadBehind(st0, tool) ==
    IF st0.status.has_remote /\ ~st0.status.is_detached
    THEN LET r     == RunGit(tool[Q_AHEAD])
             st    == Asked(st0, Q_AHEAD)
             parts == SplitWS(r.out)
         IN  IF r.rc = 0 /\ r.out # <<>> /\ Len(parts) = 2
             THEN LET left  == ParseInt(parts[1])
                      right == ParseInt(parts[2])
                  IN  IF ~left.ok THEN st
                      ELSE IF ~right.ok
                      THEN [st EXCEPT !.status.behind = left.val]
                      ELSE [st EXCEPT !.status.behind = left.val,
                                      !.status.ahead = right.val]
             ELSE st
    ELSE st0

\* stdout.split("|||", 1)
SplitLog(out) ==
    IF \E i \in 1..Len(out) : out[i] = LogSep
    THEN LET k == CHOOSE i \in 1..Len(out) :
                      out[i] = LogSep /\ \A j \in 1..(i - 1) : out[j] # LogSep
         IN  <<SubSeq(out, 1, k - 1), SubSeq(out, k + 1, Len(out))>>
    ELSE <<out>>

\* Lines 304-321: last commit date, subject and age.
StepLog(st0, tool, now) ==
    LET r     == RunGit(tool[Q_LOG])
        st    == Asked(st0, Q_LOG)
        parts == SplitLog(r.out)
    IN  IF r.rc = 0 /\ r.out # <<>> /\ Len(parts) = 2
        THEN LET dt  == ParseIsoDate(parts[1])
                 st1 == [st EXCEPT
                           !.status.last_commit_date = parts[1],
                           !.status.last_commit_message =
                               SubSeq(parts[2], 1,
                                      IF Len(parts[2]) < MessageLimit
                                      THEN Len(parts[2]) ELSE MessageLimit)]
             IN  IF dt = <<>> THEN st1
                 ELSE [st1 EXCEPT
                         !.status.last_commit_age_days = AgeDays(now, dt[1])]
        ELSE st

\* Lines 323-329: total commits.
StepTotalCommits(st0, tool) ==
    LET r  == RunGit(tool[Q_COUNT])
        st == Asked(st0, Q_COUNT)
        n  == ParseInt(r.out)
    IN  IF r.rc = 0 /\ r.out # <<>> /\ n.ok
        THEN [st EXCEPT !.status.total_commits = n.val]
        ELSE st

\* Lines 331-350: branch, tag and stash counts.
StepListings(st0, tool) ==
    LET rb == RunGit(tool[Q_BRANCHES])
        rt == RunGit(tool[Q_TAGS])
        rs == RunGit(tool[Q_STASH])
        st == Asked(Asked(Asked(st0, Q_BRANCHES), Q_TAGS), Q_STASH)
    IN  [st EXCEPT
           !.status.branch_count =
               IF rb.rc = 0 /\ rb.out # <<>> THEN NonEmptyLines(rb.out) ELSE @,
           !.status.tag_count =
               IF rt.rc = 0 /\ rt.out # <<>> THEN NonEmptyLines(rt.out) ELSE @,
           !.status.stash_count =
               IF rs.rc = 0 /\ rs.out # <<>> THEN NonEmptyLines(rs.out) ELSE @]

\* Lines 352-357: the score, grade and issues of the record.
StepHealth(st) ==
    LET h == CalculateHealth(st.status)
    IN  [st EXCEPT !.status.health_score = h.score,
                   !.status.health_grade = h.grade,
                   !.status.issues = h.issues]

GetRepoStatus_NoEarlyReturn(path, tool, now) ==
    LET r  == RunGit(tool[Q_VALID])
        s0 == Asked(NewExtraction(path), Q_VALID)
        s1 == StepBranch(IF r.rc # 0 THEN InvalidRepo(s0, r) ELSE s0, tool)
        s2 == StepStatus(s1, tool)
        s3 == StepRemote(s2, tool)
        s4 == StepAheadBehind(s3, tool)
        s5 == StepLog(s4, tool, now)
        s6 == StepTotalCommits(s5, tool)
        s7 == StepListings(s6, tool)
    IN  StepHealth(s7)

GetRepoStatus(path, tool, now) ==
    LET r  == RunGit(tool[Q_VALID])
        s0 == Asked(NewExtraction(path), Q_VALID)
    IN  IF r.rc # 0
        THEN InvalidRepo(s0, r)
        ELSE LET s1 == StepBranch(s0, tool)
                 s2 == StepStatus(s1, tool)
                 s3 == StepRemote(s2, tool)
                 s4 == StepAheadBehind(s3, tool)
                 s5 == StepLog(s4, tool, now)
                 s6 == StepTotalCommits(s5, tool)
                 s7 == StepListings(s6, tool)
             IN  StepHealth(s7)


(***************************************************************************)
(* GitPulse.get_status (lines 507-528).  The argument is an empty string,  *)
(* or a path that is missing, a file or a directory.                       *)
(***************************************************************************)
Raised(exc) == [exc |-> exc, status |-> <<>>, queries |-> <<>>]

GetStatus_NoExistsCheck(arg, tool, now) ==
    IF arg.kind = "empty" THEN Raised("ValueError")
    ELSE LET st == GetRepoStatus(arg.path, tool, now)
         IN  [exc |-> "", status |-> <<st.status>>, queries |-> st.queries]

GetStatus(arg, tool, now) ==
    IF arg.kind = "empty" THEN Raised("ValueError")
    ELSE IF arg.kind = "missing" THEN Raised("FileNotFoundError")
    ELSE LET st == GetRepoStatus(arg.path, tool, now)
         IN  [exc |-> "", status |-> <<st.status>>, queries |-> st.queries]

(***************************************************************************)
(* Branch Analyzer: GitPulse.get_branches (lines 585-652).  The listing    *)
(* holds one line per branch, its four fields separated by "|||"; `tool`   *)
(* gives the answer to the listing query and, per branch name, to the      *)
(* commit-date query.                                                      *)
(***************************************************************************)
Q_BLIST == "branch -vv --format"
Q_BLOG  == "log -1 --format=%aI <branch>"

\* BranchInfo (dataclass, lines 41-50).
NewBranch(name, is_current, tracking) ==
    [name |-> name, is_current |-> is_current, last_commit_date |-> <<>>,
     last_commit_age_days |-> 0, ahead |-> 0, behind |-> 0,
     tracking |-> tracking]

SearchCount_OneDigit(text, word) ==
    LET hits == {i \in 1..(Len(text) - 2) :
                    text[i] = word /\ text[i + 1] = " " /\ text[i + 2] \in Digits}
    IN  IF hits = {} THEN <<>>
        ELSE LET i == CHOOSE h \in hits : \A g \in hits : h <= g
             IN  <<DigitValue[text[i + 2]]>>

\* re.search(word + r" (\d+)", text): the first place where the word, a
\* space and a digit follow one another, and the digits from there on.
SearchCount(text, word) ==
    LET At(i) == /\ i + 2 <= Len(text)
                 /\ text[i] = word
                 /\ text[i + 1] = " "
                 /\ text[i + 2] \in Digits
        hits  == {i \in 1..Len(text) : At(i)}
    IN  IF hits = {} THEN <<>>
        ELSE LET i    == CHOOSE h \in hits : \A g \in hits : h <= g
                 last == CHOOSE e \in (i + 2)..Len(text) :
                            /\ \A k \in (i + 2)..e : text[k] \in Digits
                            /\ e = Len(text) \/ text[e + 1] \notin Digits
             IN  <<DecimalValue(SubSeq(text, i + 2, last))>>

\* Lines 611-650: one line of the listing.
BranchLine(line, tool, now, acc) ==
    LET parts == SplitOn(line, LogSep)
    IN  IF Len(parts) < 2 THEN acc
        ELSE
          LET name       == Strip(parts[2])
              tracking   == IF Len(parts) > 2 THEN Strip(parts[3]) ELSE <<>>
              track_info == IF Len(parts) > 3 THEN Strip(parts[4]) ELSE <<>>
              b0    == NewBranch(name, Strip(parts[1]) = <<"*">>, tracking)
              am    == SearchCount(track_info, "ahead")
              bm    == SearchCount(track_info, "behind")
              b1    == [b0 EXCEPT
                          !.ahead  = IF am # <<>> THEN am[1] ELSE @,
                          !.behind = IF bm # <<>> THEN bm[1] ELSE @]
              r2    == RunGit(IF name \in DOMAIN tool.dates
                              THEN tool.dates[name]
                              ELSE Exited(<<>>, <<"fatal: bad revision">>, 128))
              dt    == ParseIsoDate(r2.out)
              b2    == IF r2.rc = 0 /\ r2.out # <<>>
                       THEN [b1 EXCEPT
                               !.last_commit_date = r2.out,
                               !.last_commit_age_days =
                                   IF dt = <<>> THEN @ ELSE AgeDays(now, dt[1])]
                       ELSE b1
          IN  [branches |-> Append(acc.branches, b2),
               queries  |-> Append(acc.queries, Q_BLOG)]

RECURSIVE BranchLines(_, _, _, _)
BranchLines(lines, tool, now, acc) ==
    IF lines = <<>> THEN acc
    ELSE BranchLines(Tail(lines), tool, now,
                     BranchLine(Head(lines), tool, now, acc))

GetBranches(arg, tool, now) ==
    IF arg.kind = "empty" THEN Raised("ValueError")
    ELSE IF arg.kind = "missing" THEN Raised("FileNotFoundError")
    ELSE LET r == RunGit(tool.list)
         IN  IF r.rc # 0 \/ r.out = <<>>
             THEN [exc |-> "", status |-> <<<<>>>>, queries |-> <<Q_BLIST>>]
             ELSE LET done == BranchLines(SplitOn(r.out, NL), tool, now,
                                          [branches |-> <<>>,
                                           queries |-> <<Q_BLIST>>])
                  IN  [exc |-> "", status |-> <<done.branches>>,
                       queries |-> done.queries]

(***************************************************************************)
(* SpecExtract: get_status against the answers git gives to each query.    *)
(***************************************************************************)
Ok(out) == Exited(out, <<>>, 0)
Fatal == Exited(<<>>, <<"fatal: failed">>, 128)
TimedOut == Raises("TimeoutExpired", <<>>)

Answers ==
    [q \in Queries |->
        CASE q = Q_VALID ->
               {Ok(<<".git", NL>>), Fatal, TimedOut}
          [] q = Q_BRANCH ->
               {Ok(<<"main", NL>>), Ok(<<>>), Fatal}
          [] q = Q_SHORT ->
               {Ok(<<"abc1234", NL>>), Fatal}
          [] q = Q_STATUS ->
               {Ok(<<>>), Ok(EmitPorcelain(<<<<"?", "?">>, <<"M", "M">>>>)),
                Ok(EmitPorcelain(<<<<"U", "U">>>>)),
                Ok(EmitPorcelain(<<<<"D", " ">>, <<"R", "D">>>>)), Fatal}
          [] q = Q_REMOTE ->
               {Ok(<<"origin", "\t", "https://host/r.git", " ", "(fetch)", NL,
                     "origin", "\t", "https://host/r.git", " ", "(push)", NL>>),
                Ok(<<>>), Fatal}
          [] q = Q_AHEAD ->
               {Ok(<<"0", "\t", "0", NL>>), Ok(<<"2", "\t", "1", "0", NL>>),
                Fatal}
          [] q = Q_LOG ->
               {Ok(<<"d_day9_plus5", LogSep, "fix", " ", "bug", NL>>),
                Ok(<<"d_day8_noon", LogSep, "init", NL>>),
                Ok(<<"d_day11_utc", LogSep, "wip", NL>>),
                Ok(<<"yesterday", LogSep, "init", NL>>),
                Fatal}
          [] q = Q_COUNT ->
               {Ok(<<"1", "2", NL>>), Ok(<<"0", NL>>), Fatal}
          [] q = Q_BRANCHES ->
               {Ok(<<"*", " ", "main", NL, " ", " ", "dev", NL>>), Fatal}
          [] q = Q_TAGS ->
               {Ok(<<"v1", NL, NL, " ", NL, "v2", NL>>), Ok(<<>>), Fatal}
          [] q = Q_STASH ->
               {Ok(<<"stash@{0}: WIP on main", NL>>), Ok(<<>>), TimedOut}]

\* git cannot enter a path that is not a directory: the validity query fails.
AnswersFor(kind) ==
    IF kind = "dir" THEN Answers
    ELSE [Answers EXCEPT ![Q_VALID] = {Fatal, TimedOut}]

\* The tool when get_status raises before it issues a query.
AnyTool == [q \in Queries |-> Fatal]

Clocks == {228, 2400}

ExtractInit ==
    /\ \/ \E kind \in {"empty", "missing"} :
            gin = [arg |-> [kind |-> kind, path |-> <<>>], tool |-> AnyTool,
                   now |-> 228]
       \/ \E kind \in {"file", "dir"} :
          \E now \in Clocks,
             v \in AnswersFor(kind)[Q_VALID], b \in Answers[Q_BRANCH],
             h \in Answers[Q_SHORT], s \in Answers[Q_STATUS],
             r \in Answers[Q_REMOTE], a \in Answers[Q_AHEAD],
             l \in Answers[Q_LOG], c \in Answers[Q_COUNT],
             bl \in Answers[Q_BRANCHES], tg \in Answers[Q_TAGS],
             sh \in Answers[Q_STASH] :
            gin = [arg |-> [kind |-> kind, path |-> <<"home", "proj">>],
                   tool |-> [q \in Queries |->
                               CASE q = Q_VALID -> v [] q = Q_BRANCH -> b
                                 [] q = Q_SHORT -> h [] q = Q_STATUS -> s
                                 [] q = Q_REMOTE -> r [] q = Q_AHEAD -> a
                                 [] q = Q_LOG -> l [] q = Q_COUNT -> c
                                 [] q = Q_BRANCHES -> bl [] q = Q_TAGS -> tg
                                 [] q = Q_STASH -> sh],
                   now |-> now]
    /\ gout = <<>>
    /\ hstatus = Idle /\ hresult = Idle
    /\ proc = Idle /\ ret = Idle
    /\ pcodes = Idle /\ pout = Idle
    /\ lfs = Idle /\ lmax = Idle /\ lout = Idle
    /\ sarg = Idle /\ sfs = Idle /\ scan = Idle

\* status = pulse.get_status(repo_path)
CallGetStatus ==
    /\ gout = <<>>
    /\ gout' = <<GetStatus(gin.arg, gin.tool, gin.now)>>
    /\ UNCHANGED <<gin, healthVars, runVars, porcelainVars, locateVars, scanVars>>

ExtractNext == CallGetStatus

SpecExtract == ExtractInit /\ [][ExtractNext]_vars

(***************************************************************************)
(* Claims about the Status Extractor, checked under SpecExtract.           *)
(***************************************************************************)
\* C5: in every RepoStatus the Status Extractor returns, is_dirty is true
\* if and only if staged_count + modified_count + untracked_count
\* + deleted_count + conflict_count > 0.
C5_DirtyIffAnyCounter ==
    (gout # <<>> /\ gout[1].status # <<>>) =>
        LET s == gout[1].status[1]
        IN  s.is_dirty <=>
                (s.staged_count + s.modified_count + s.untracked_count
                    + s.deleted_count + s.conflict_count > 0)

\* A record whose only changed paths are conflicts has been returned dirty.
C5_Witness ==
    /\ gout # <<>> /\ gout[1].status # <<>>
    /\ gout[1].status[1].conflict_count > 0
    /\ gout[1].status[1].staged_count + gout[1].status[1].modified_count
         + gout[1].status[1].untracked_count + gout[1].status[1].deleted_count = 0
    /\ gout[1].status[1].is_dirty


(***************************************************************************)
(* Scan Orchestrator: GitPulse.scan (lines 452-505).  scan_time and        *)
(* scan_duration_ms, readings of the wall clock, are left out.             *)
(***************************************************************************)
HealthyMin == 80
WarningMin == 60

NewScanResult(root) ==
    [root_dir |-> root, total_repos |-> 0, healthy_count |-> 0,
     warning_count |-> 0, critical_count |-> 0, error_count |-> 0,
     repos |-> <<>>]

\* Lines 488-497: append the record and count it in its bucket.
AddRepo_StrictBuckets(result, status) ==
    LET r == [result EXCEPT !.repos = Append(@, status)]
    IN  IF status.error # <<>> THEN [r EXCEPT !.error_count = @ + 1]
        ELSE IF status.health_score > HealthyMin
        THEN [r EXCEPT !.healthy_count = @ + 1]
        ELSE IF status.health_score > WarningMin
        THEN [r EXCEPT !.warning_count = @ + 1]
        ELSE [r EXCEPT !.critical_count = @ + 1]

AddRepo(result, status) ==
    LET r == [result EXCEPT !.repos = Append(@, status)]
    IN  IF status.error # <<>> THEN [r EXCEPT !.error_count = @ + 1]
        ELSE IF status.health_score >= HealthyMin
        THEN [r EXCEPT !.healthy_count = @ + 1]
        ELSE IF status.health_score >= WarningMin
        THEN [r EXCEPT !.warning_count = @ + 1]
        ELSE [r EXCEPT !.critical_count = @ + 1]

\* (a.health_score, a.name) < (b.health_score, b.name)
KeyLess_ScoreOnly(a, b) == a.health_score < b.health_score

KeyLess(a, b) ==
    \/ a.health_score < b.health_score
    \/ a.health_score = b.health_score /\ NameRank(a.name) < NameRank(b.name)

InsertSorted_Unstable(sorted, x) ==
    LET k == Cardinality({i \in 1..Len(sorted) : KeyLess(sorted[i], x)})
    IN  SubSeq(sorted, 1, k) \o <<x>> \o SubSeq(sorted, k + 1, Len(sorted))

\* list.sort is stable: a record goes behind the records that do not
\* compare greater than it.
InsertSorted(sorted, x) ==
    LET k == Cardinality({i \in 1..Len(sorted) : ~KeyLess(x, sorted[i])})
    IN  SubSeq(sorted, 1, k) \o <<x>> \o SubSeq(sorted, k + 1, Len(sorted))

RECURSIVE SortFrom(_, _)
SortFrom(sorted, rest) ==
    IF rest = <<>> THEN sorted
    ELSE SortFrom(InsertSorted(sorted, Head(rest)), Tail(rest))

\* result.repos.sort(key=lambda r: (r.health_score, r.name))
SortRepos(repos) == SortFrom(<<>>, repos)

(***************************************************************************)
(* SpecScan: repositories are created under the root, then scan runs: the  *)
(* checks of its argument and the locator, one repository per step, the    *)
(* sort.  What git answers for a repository is drawn when the scan reaches  *)
(* it.                                                                     *)
(***************************************************************************)
\* The directories a repository is created in.
RepoSites ==
    {ScanRoot, <<"work", "a">>, <<"work", "b">>, <<"work", "a", "a">>,
     <<"work", "a", "b">>, <<"work", "b", "a">>}

\* Where a directory may be linked into itself.
LoopSites == {<<"work", "b">>, <<"work", "a", "b">>}

CleanTool ==
    [q \in Queries |->
        CASE q = Q_VALID    -> Ok(<<".git", NL>>)
          [] q = Q_BRANCH   -> Ok(<<"main", NL>>)
          [] q = Q_SHORT    -> Ok(<<"abc1234", NL>>)
          [] q = Q_STATUS   -> Ok(<<>>)
          [] q = Q_REMOTE   -> Ok(<<"origin", "\t", "https://host/r.git", " ",
                                    "(fetch)", NL>>)
          [] q = Q_AHEAD    -> Ok(<<"0", "\t", "0", NL>>)
          [] q = Q_LOG      -> Ok(<<"d_day9_utc", LogSep, "fix", NL>>)
          [] q = Q_COUNT    -> Ok(<<"1", "2", NL>>)
          [] q = Q_BRANCHES -> Ok(<<"*", " ", "main", NL>>)
          [] q = Q_TAGS     -> Ok(<<>>)
          [] q = Q_STASH    -> Ok(<<>>)]

Conflicted == Ok(EmitPorcelain(<<<<"U", "U">>>>))

\* What git answers in a repository, by the state the repository is in.
Scenarios ==
    [ clean      |-> CleanTool,
      invalid    |-> [CleanTool EXCEPT ![Q_VALID] = Fatal],
      hung       |-> [CleanTool EXCEPT ![Q_VALID] = TimedOut],
      no_remote  |-> [CleanTool EXCEPT
                         ![Q_REMOTE] = Ok(<<>>),
                         ![Q_LOG] = Ok(<<"d_day2_utc", LogSep, "old", NL>>)],
      conflict   |-> [CleanTool EXCEPT
                         ![Q_STATUS] = Conflicted,
                         ![Q_LOG] = Ok(<<"d_day8_noon", LogSep, "wip", NL>>)],
      diverged   |-> [CleanTool EXCEPT ![Q_STATUS] = Conflicted,
                                       ![Q_AHEAD] = Ok(<<"1", "\t", "2", NL>>)],
      detached   |-> [CleanTool EXCEPT ![Q_STATUS] = Conflicted,
                                       ![Q_REMOTE] = Ok(<<>>),
                                       ![Q_BRANCH] = Ok(<<>>)],
      unborn     |-> [CleanTool EXCEPT ![Q_STATUS] = Conflicted,
                                       ![Q_LOG] = Fatal,
                                       ![Q_COUNT] = Fatal,
                                       ![Q_AHEAD] = Ok(<<"3", "\t", "0", NL>>)],
      abandoned  |-> [CleanTool EXCEPT ![Q_REMOTE] = Ok(<<>>),
                                       ![Q_COUNT] = Ok(<<"0", NL>>),
                                       ![Q_BRANCH] = Ok(<<>>)] ]

ScanClock == 228

(***************************************************************************)
(* SpecAhead: get_status on a repository with a remote and a branch,       *)
(* against every short output of the ahead/behind query.                   *)
(***************************************************************************)
AheadChars == {"1", "2", "x", "\t", "-"}
AheadAnswers ==
    {Exited(t, <<>>, rc) : t \in TextsUpTo(AheadChars, MaxText + 2),
                           rc \in {0, 128}}
        \cup {TimedOut}

AheadInit ==
    /\ \E a \in AheadAnswers :
          gin = [arg |-> [kind |-> "dir", path |-> <<"home", "proj">>],
                 tool |-> [CleanTool EXCEPT ![Q_AHEAD] = a],
                 now |-> ScanClock]
    /\ gout = <<>>
    /\ hstatus = Idle /\ hresult = Idle
    /\ proc = Idle /\ ret = Idle
    /\ pcodes = Idle /\ pout = Idle
    /\ lfs = Idle /\ lmax = Idle /\ lout = Idle
    /\ sarg = Idle /\ sfs = Idle /\ scan = Idle

SpecAhead == AheadInit /\ [][ExtractNext]_vars

\* C18: an output of two whitespace-separated integers "L R" with code 0
\* sets behind = L and ahead = R; on a non-zero code, an empty output, a
\* token count other than two, or a token that is not an integer, ahead and
\* behind both remain 0.
C18_AheadBehindParsed ==
    gout # <<>> =>
        LET s     == gout[1].status[1]
            r     == RunGit(gin.tool[Q_AHEAD])
            parts == SplitWS(r.out)
            good  == /\ r.rc = 0
                     /\ Len(parts) = 2
                     /\ ParseInt(parts[1]).ok
                     /\ ParseInt(parts[2]).ok
        IN  IF good
            THEN s.behind = ParseInt(parts[1]).val
                    /\ s.ahead = ParseInt(parts[2]).val
            ELSE s.behind = 0 /\ s.ahead = 0


\* The public operations of a GitPulse object; the first five run a scan.
ScanOps == {"scan", "find_dirty", "find_stale", "find_unsynced", "find_no_remote"}
Ops == ScanOps \cup {"get_status", "get_branches"}
DefaultDays == 30
\* The days arguments find_stale is called with, and the timeouts a GitPulse
\* object is constructed with.
DaysArgs == {0, 1, 7}
Timeouts == {0, 1, 10}

\* Lines 530-583: what each filter keeps of result.repos.
FindDirty(repos) == SelectSeq(repos, LAMBDA r : r.is_dirty)
FindStale_Inclusive(repos, days) ==
    SelectSeq(repos, LAMBDA r : r.last_commit_age_days >= days)
FindStale(repos, days) ==
    SelectSeq(repos, LAMBDA r : r.last_commit_age_days > days)
FindUnsynced(repos) == SelectSeq(repos, LAMBDA r : r.ahead > 0 \/ r.behind > 0)
FindNoRemote(repos) == SelectSeq(repos, LAMBDA r : ~r.has_remote)

\* What the operation returns from the result of its scan.
ReturnOf(op, days, result) ==
    CASE op = "scan"           -> result
      [] op = "find_dirty"     -> FindDirty(result.repos)
      [] op = "find_stale"     -> FindStale(result.repos, days)
      [] op = "find_unsynced"  -> FindUnsynced(result.repos)
      [] op = "find_no_remote" -> FindNoRemote(result.repos)

\* git cannot enter a path that is not a directory: its first query fails.
ToolAt(kind, tool) ==
    IF kind = "dir" THEN tool ELSE [tool EXCEPT ![Q_VALID] = Fatal]

BranchListing ==
    <<" ", LogSep, "dev", LogSep, LogSep, NL,
      "*", LogSep, "main", LogSep, "origin/main", LogSep,
      "[", "ahead", " ", "2", ",", " ", "behind", " ", "1", "]", NL>>
BranchNames == {<<"main">>, <<"dev">>}
\* What git answers to the queries of get_branches.
BranchTools(kind) ==
    {[list |-> l, dates |-> d] :
        l \in IF kind = "dir" THEN {Ok(BranchListing), Ok(<<>>), Fatal, TimedOut}
              ELSE {Fatal, TimedOut},
        d \in [BranchNames ->
                  {Ok(<<"d_day8_noon", NL>>), Ok(<<"d_day2_utc", NL>>),
                   Ok(<<>>), Fatal}]}

ScanInit ==
    /\ sarg \in {"empty", "missing", "file", "dir"}
    /\ sfs = {}
    /\ \E depth \in 0..MaxDepth, timeout \in Timeouts, op \in Ops :
       \E days \in IF op = "find_stale" THEN DaysArgs ELSE {DefaultDays} :
          scan = [pc |-> "new",
                  ctor |-> [max_depth |-> depth, timeout |-> timeout],
                  self |-> <<>>, op |-> op, days |-> days, exc |-> "",
                  walked |-> FALSE, repo_paths |-> <<>>, i |-> 0,
                  result |-> <<>>, extracted |-> <<>>, qlog |-> <<>>,
                  out |-> <<>>, walk |-> <<>>]
    /\ hstatus = Idle /\ hresult = Idle
    /\ proc = Idle /\ ret = Idle
    /\ pcodes = Idle /\ pout = Idle
    /\ gin = Idle /\ gout = Idle
    /\ lfs = Idle /\ lmax = Idle /\ lout = Idle

Construct_NoTimeoutCheck ==
    /\ scan.pc = "new"
    /\ scan' =
          IF scan.ctor.max_depth < 1
          THEN [scan EXCEPT !.pc = "raised", !.exc = "ValueError"]
          ELSE [scan EXCEPT
                  !.pc = "setup",
                  !.self = <<[max_depth |-> scan.ctor.max_depth,
                              timeout |-> scan.ctor.timeout]>>]
    /\ UNCHANGED <<sarg, sfs, healthVars, runVars, porcelainVars,
                   extractVars, locateVars>>

\* GitPulse(max_depth, timeout), lines 125-138.
Construct ==
    /\ scan.pc = "new"
    /\ scan' =
          IF scan.ctor.max_depth < 1
          THEN [scan EXCEPT !.pc = "raised", !.exc = "ValueError"]
          ELSE IF scan.ctor.timeout < 1
          THEN [scan EXCEPT !.pc = "raised", !.exc = "ValueError"]
          ELSE [scan EXCEPT
                  !.pc = "setup",
                  !.self = <<[max_depth |-> scan.ctor.max_depth,
                              timeout |-> scan.ctor.timeout]>>]
    /\ UNCHANGED <<sarg, sfs, healthVars, runVars, porcelainVars,
                   extractVars, locateVars>>

Ancestry(path) == {SubSeq(path, 1, n) : n \in 2..Len(path)}

\* The environment creates a repository (git init) in a directory under the
\* root, and the directories leading to it.
GitInit ==
    /\ scan.pc = "setup"
    /\ scan.op \in ScanOps
    /\ sarg = "dir"
    /\ Cardinality({e \in sfs : e[1][Len(e[1])] = Marker}) < MaxRepos
    /\ \E site \in RepoSites :
          /\ Kind(sfs, Append(site, Marker)) = "absent"
          /\ \A d \in Ancestry(site) : <<d, "loop">> \notin sfs
          /\ sfs' = sfs \cup {<<d, "dir">> : d \in Ancestry(site)}
                        \cup {<<Append(site, Marker), "dir">>}
    /\ UNCHANGED <<sarg, scan, healthVars, runVars, porcelainVars,
                   extractVars, locateVars>>

\* The environment links a directory into itself (ln -s . b): the tree the
\* scan walks is then a cyclic graph.
MakeLoop ==
    /\ scan.pc = "setup"
    /\ scan.op \in ScanOps
    /\ sarg = "dir"
    /\ Cardinality({e \in sfs : e[2] = "loop"}) < MaxLinks
    /\ \E site \in LoopSites :
          /\ \A e \in sfs : e[1] # site
          /\ \A d \in Ancestry(site) \ {site} : Kind(sfs, d) = "dir"
          /\ sfs' = sfs \cup {<<site, "loop">>}
    /\ UNCHANGED <<sarg, scan, healthVars, runVars, porcelainVars,
                   extractVars, locateVars>>

\* Lines 554-555 of find_stale, then lines 466-484 of scan: the checks of
\* root_dir, the locator, the empty result.
ScanBegin ==
    /\ scan.pc = "setup"
    /\ scan.op \in ScanOps
    /\ scan' =
          IF scan.op = "find_stale" /\ scan.days < 1
          THEN [scan EXCEPT !.pc = "raised", !.exc = "ValueError"]
          ELSE IF sarg = "empty"
          THEN [scan EXCEPT !.pc = "raised", !.exc = "ValueError"]
          ELSE IF sarg = "missing"
          THEN [scan EXCEPT !.pc = "raised", !.exc = "FileNotFoundError"]
          ELSE IF sarg = "file"
          THEN [scan EXCEPT !.pc = "raised", !.exc = "ValueError"]
          ELSE LET found == FindRepos(sfs, scan.self[1].max_depth, ScanRoot, 0)
                   paths == found.repos
               IN  [scan EXCEPT
                      !.pc = "loop",
                      !.walked = TRUE,
                      !.walk = found.calls,
                      !.repo_paths = paths,
                      !.i = 1,
                      !.result = <<[NewScanResult(ScanRoot) EXCEPT
                                      !.total_repos = Len(paths)]>>]
    /\ UNCHANGED <<sarg, sfs, healthVars, runVars, porcelainVars,
                   extractVars, locateVars>>

\* Lines 486-497: one iteration of the loop over repo_paths.  git answers
\* alike for two paths that lead to the same repository.
ScanRepo ==
    /\ scan.pc = "loop"
    /\ scan.i <= Len(scan.repo_paths)
    /\ \E sc \in DOMAIN Scenarios :
          LET rp == scan.repo_paths[scan.i]
              st == GetRepoStatus(rp, Scenarios[sc], ScanClock)
          IN  /\ \A k \in 1..Len(scan.extracted) :
                    Resolve(sfs, scan.extracted[k].path) = Resolve(sfs, rp)
                        => scan.extracted[k].scenario = sc
              /\ scan' =
                [scan EXCEPT
                   !.i = @ + 1,
                   !.result = <<AddRepo(@[1], st.status)>>,
                   !.extracted =
                       Append(@, [path |-> rp, scenario |-> sc,
                                  status |-> st.status]),
                   !.qlog = @ \o [k \in 1..Len(st.queries) |->
                                     <<rp, st.queries[k]>>]]
    /\ UNCHANGED <<sarg, sfs, healthVars, runVars, porcelainVars,
                   extractVars, locateVars>>

\* Lines 499-505: the sort, and the return; a filter then returns what it
\* keeps of the sorted records.
ScanFinish ==
    /\ scan.pc = "loop"
    /\ scan.i > Len(scan.repo_paths)
    /\ LET sorted == [scan.result[1] EXCEPT !.repos = SortRepos(@)]
       IN  scan' = [scan EXCEPT
                      !.pc = "done",
                      !.result = <<sorted>>,
                      !.out = <<ReturnOf(scan.op, scan.days, sorted)>>]
    /\ UNCHANGED <<sarg, sfs, healthVars, runVars, porcelainVars,
                   extractVars, locateVars>>

\* What a call that is not a scan leaves: it raised, or returned a value
\* after the queries it issued on the path.
AfterCall(r) ==
    IF r.exc # ""
    THEN [scan EXCEPT !.pc = "raised", !.exc = r.exc]
    ELSE [scan EXCEPT
            !.pc = "done",
            !.out = r.status,
            !.qlog = [k \in 1..Len(r.queries) |-> <<ScanRoot, r.queries[k]>>]]

\* pulse.get_status(repo_path)
EntryGetStatus ==
    /\ scan.pc = "setup"
    /\ scan.op = "get_status"
    /\ \E sc \in DOMAIN Scenarios :
          scan' = AfterCall(GetStatus([kind |-> sarg, path |-> ScanRoot],
                                      ToolAt(sarg, Scenarios[sc]), ScanClock))
    /\ UNCHANGED <<sarg, sfs, healthVars, runVars, porcelainVars,
                   extractVars, locateVars>>

\* pulse.get_branches(repo_path)
EntryGetBranches ==
    /\ scan.pc = "setup"
    /\ scan.op = "get_branches"
    /\ \E tool \in BranchTools(sarg) :
          scan' = AfterCall(GetBranches([kind |-> sarg, path |-> ScanRoot],
                                        tool, ScanClock))
    /\ UNCHANGED <<sarg, sfs, healthVars, runVars, porcelainVars,
                   extractVars, locateVars>>

ScanNext ==
    \/ Construct
    \/ GitInit
    \/ MakeLoop
    \/ ScanBegin
    \/ ScanRepo
    \/ ScanFinish
    \/ EntryGetStatus
    \/ EntryGetBranches

SpecScan == ScanInit /\ [][ScanNext]_vars

\* The steps of the program: one thread runs the call to its end, each
\* query it waits for being cut off at the timeout.  The other steps are
\* the environment's, taken before the call.
ProgramStep ==
    \/ Construct
    \/ ScanBegin
    \/ ScanRepo
    \/ ScanFinish
    \/ EntryGetStatus
    \/ EntryGetBranches


(***************************************************************************)
(* Claims about scan.                                                      *)
(***************************************************************************)
Returned_Scan == scan.pc = "done" /\ scan.op \in ScanOps
ScanRepos == scan.result[1].repos
ErrorRecords == {i \in 1..Len(ScanRepos) : ScanRepos[i].error # <<>>}
HealthyRecords ==
    {i \in 1..Len(ScanRepos) :
        ScanRepos[i].error = <<>> /\ ScanRepos[i].health_score >= 80}
WarningRecords ==
    {i \in 1..Len(ScanRepos) :
        /\ ScanRepos[i].error = <<>>
        /\ ScanRepos[i].health_score >= 60
        /\ ScanRepos[i].health_score <= 79}
CriticalRecords ==
    {i \in 1..Len(ScanRepos) :
        ScanRepos[i].error = <<>> /\ ScanRepos[i].health_score < 60}

\* C6: in every ScanResult that scan returns, each repository record is
\* counted in exactly one of healthy_count (no error, score >= 80),
\* warning_count (no error, score 60..79), critical_count (no error, score
\* < 60) and error_count (error set), and the four counters sum to
\* total_repos, the number of records.
C6_BucketsPartitionRepos ==
    Returned_Scan =>
        LET r == scan.result[1]
        IN  /\ r.total_repos = Len(r.repos)
            /\ r.healthy_count = Cardinality(HealthyRecords)
            /\ r.warning_count = Cardinality(WarningRecords)
            /\ r.critical_count = Cardinality(CriticalRecords)
            /\ r.error_count = Cardinality(ErrorRecords)
            /\ r.healthy_count + r.warning_count + r.critical_count
                  + r.error_count = r.total_repos

\* A result with a record at each of the thresholds 80 and 60, and one
\* record with an error.
C6_Witness ==
    /\ Returned_Scan
    /\ Len(ScanRepos) = 3
    /\ \E i \in HealthyRecords : ScanRepos[i].health_score = 80
    /\ \E i \in WarningRecords : ScanRepos[i].health_score = 60
    /\ ErrorRecords # {}

StrLeq(a, b) == NameRank(a) <= NameRank(b)
PairLeq(a, b) ==
    \/ a.health_score < b.health_score
    \/ a.health_score = b.health_score /\ StrLeq(a.name, b.name)
RecordsFor(path) == {i \in 1..Len(ScanRepos) : ScanRepos[i].path = path}
ExtractedFor(path) ==
    {i \in 1..Len(scan.extracted) : scan.extracted[i].path = path}
Located == {scan.repo_paths[i] : i \in 1..Len(scan.repo_paths)}

\* C7: in the returned result, repos is in ascending order of the pair
\* (health_score, name), and it holds the records that were extracted,
\* rearranged: one record for each located repository path, the one
\* _get_repo_status gave for that path, and nothing else.
C7_SortedPermutation ==
    Returned_Scan =>
        /\ \A i \in 1..(Len(ScanRepos) - 1) :
              PairLeq(ScanRepos[i], ScanRepos[i + 1])
        /\ Len(ScanRepos) = Len(scan.repo_paths)
        /\ \A i \in 1..Len(ScanRepos) : ScanRepos[i].path \in Located
        /\ \A path \in Located :
              /\ Cardinality(RecordsFor(path)) = 1
              /\ Cardinality(ExtractedFor(path)) = 1
              /\ \A i \in RecordsFor(path), k \in ExtractedFor(path) :
                    ScanRepos[i] = scan.extracted[k].status

\* The sort moved a record: three records, the last one extracted comes
\* first, and two records of equal score are ordered by name against the
\* order they were extracted in.
C7_Witness ==
    /\ Returned_Scan
    /\ Len(ScanRepos) = 3
    /\ ScanRepos[1] = scan.extracted[3].status
    /\ \E i \in 1..2 :
          /\ ScanRepos[i].health_score = ScanRepos[i + 1].health_score
          /\ ScanRepos[i].name # ScanRepos[i + 1].name
          /\ \E k, m \in 1..3 :
                /\ k > m
                /\ scan.extracted[k].status = ScanRepos[i]
                /\ scan.extracted[m].status = ScanRepos[i + 1]

ValidityFails(entry) == RunGit(Scenarios[entry.scenario][Q_VALID]).rc # 0
QueriesAt(path) ==
    LET RECURSIVE Pick(_)
        Pick(log) ==
            IF log = <<>> THEN <<>>
            ELSE IF Head(log)[1] = path
            THEN <<Head(log)[2]>> \o Pick(Tail(log))
            ELSE Pick(Tail(log))
    IN  Pick(scan.qlog)
FailedValidity ==
    {k \in 1..Len(scan.extracted) : ValidityFails(scan.extracted[k])}

\* C8: a repository whose validity query fails gets a record with error
\* set, health_score 0 and health_grade "F"; no query but the validity
\* query is issued for it; the scan goes on with the remaining repositories
\* (it returns a record for every located path); and the record is counted
\* in error_count and in no other bucket counter.
C8_InvalidRepoIsErrorRecord ==
    /\ scan.pc \in {"loop", "done"} =>
          \A k \in FailedValidity :
              LET e == scan.extracted[k]
              IN  /\ e.status.error # <<>>
                  /\ e.status.health_score = 0
                  /\ e.status.health_grade = "F"
                  /\ QueriesAt(e.path) = <<Q_VALID>>
    /\ Returned_Scan =>
          LET r == scan.result[1]
              WithError ==
                  {k \in 1..Len(scan.extracted) :
                      scan.extracted[k].status.error # <<>>}
          IN  /\ Len(scan.extracted) = Len(scan.repo_paths)
              /\ Len(r.repos) = Len(scan.repo_paths)
              /\ FailedValidity \subseteq WithError
              /\ r.error_count = Cardinality(WithError)
              /\ r.healthy_count + r.warning_count + r.critical_count
                    = Len(scan.extracted) - Cardinality(WithError)

\* The first located repository is not a valid one, and the scan went on
\* to extract the two after it.
C8_Witness ==
    /\ Returned_Scan
    /\ Len(scan.extracted) = 3
    /\ 1 \in FailedValidity
    /\ 2 \notin FailedValidity
    /\ scan.result[1].error_count = 1
    /\ Len(QueriesAt(scan.extracted[2].path)) > 1


(***************************************************************************)
(* Claims about the arguments of the public operations.                    *)
(***************************************************************************)
\* An operation has been called on a constructed object.
Called == scan.self # <<>> /\ scan.pc \in {"loop", "done", "raised"}
\* Nothing was enumerated or queried, and nothing was returned.
NoWorkDone ==
    /\ ~scan.walked
    /\ scan.qlog = <<>>
    /\ scan.result = <<>>
    /\ scan.out = <<>>
RaisedOnly(exc) == scan.pc = "raised" /\ scan.exc = exc /\ NoWorkDone
PathEntryPoints == {"scan", "get_status", "get_branches"}

\* C13: scan, get_status and get_branches reject an empty path with
\* ValueError and a path that does not exist with FileNotFoundError, before
\* any directory is enumerated or any query is issued, and return nothing.
C13_EmptyOrMissingPathRejected ==
    (Called /\ scan.op \in PathEntryPoints) =>
        /\ sarg = "empty" => RaisedOnly("ValueError")
        /\ sarg = "missing" => RaisedOnly("FileNotFoundError")

\* get_branches has been called on a path that does not exist.
C13_Witness ==
    /\ Called
    /\ scan.op = "get_branches"
    /\ sarg = "missing"
    /\ scan.exc = "FileNotFoundError"

\* C14: a path that exists and is not a directory is surfaced as an error
\* before any scanning work or query, by scan, get_status and get_branches.
C14_NonDirectoryRejected ==
    (Called /\ scan.op \in PathEntryPoints /\ sarg = "file") =>
        scan.pc = "raised" /\ NoWorkDone

\* What a filter keeps.
Keeps(op, days, r) ==
    CASE op = "find_dirty"     -> r.is_dirty
      [] op = "find_stale"     -> r.last_commit_age_days > days
      [] op = "find_unsynced"  -> r.ahead > 0 \/ r.behind > 0
      [] op = "find_no_remote" -> ~r.has_remote
FilterOps == ScanOps \ {"scan"}

\* C15: each filter returns exactly the records of its scan's repos that
\* satisfy its predicate, in the order of the scan: find_dirty is_dirty,
\* find_stale(days) last_commit_age_days > days, find_unsynced ahead > 0 or
\* behind > 0, find_no_remote not has_remote; none is dropped and none that
\* fails the predicate is included.
C15_FilterIsSubsequence ==
    (scan.pc = "done" /\ scan.op \in FilterOps) =>
        LET kept == {i \in 1..Len(ScanRepos) :
                        Keeps(scan.op, scan.days, ScanRepos[i])}
            Nth(j) == CHOOSE i \in kept :
                          Cardinality({k \in kept : k <= i}) = j
            out == scan.out[1]
        IN  /\ Len(out) = Cardinality(kept)
            /\ \A j \in 1..Len(out) : out[j] = ScanRepos[Nth(j)]

\* find_stale(root, 1) over a scan with a record one day old, which it left
\* out, and an older one, which it returned.
C15_Witness ==
    /\ scan.pc = "done"
    /\ scan.op = "find_stale"
    /\ scan.days = 1
    /\ \E i \in 1..Len(ScanRepos) : ScanRepos[i].last_commit_age_days = 1
    /\ Len(scan.out[1]) = 1
    /\ scan.out[1][1].last_commit_age_days > 1

\* C16: GitPulse(max_depth, timeout) with max_depth < 1 or timeout < 1
\* raises ValueError and yields no object; with both >= 1 the object holds
\* them unchanged; find_stale with days < 1 raises ValueError before the
\* scan starts, whatever the root.
C16_NumericParametersChecked ==
    /\ scan.pc # "new" =>
          IF scan.ctor.max_depth < 1 \/ scan.ctor.timeout < 1
          THEN scan.self = <<>> /\ RaisedOnly("ValueError")
          ELSE scan.self = <<[max_depth |-> scan.ctor.max_depth,
                              timeout |-> scan.ctor.timeout]>>
    /\ (Called /\ scan.op = "find_stale" /\ scan.days < 1) =>
          RaisedOnly("ValueError")

\* find_stale(root, 0) has been called on a directory that holds a
\* repository.
C16_Witness ==
    /\ Called
    /\ scan.op = "find_stale"
    /\ scan.days = 0
    /\ sarg = "dir"
    /\ sfs # {}
    /\ scan.exc = "ValueError"


(***************************************************************************)
(* Claims about the branch and ahead/behind steps, under SpecExtract.      *)
(***************************************************************************)
\* C19: is_detached is true iff the current-branch query succeeded with an
\* empty name and a short commit identifier was resolved; a current-branch
\* query that fails or times out leaves is_detached false and adds no
\* detached-HEAD penalty.
C19_DetachedIffNoBranchName ==
    (gout # <<>> /\ gout[1].status # <<>>) =>
        LET s      == gout[1].status[1]
            valid  == RunGit(gin.tool[Q_VALID])
            branch == RunGit(gin.tool[Q_BRANCH])
            short  == RunGit(gin.tool[Q_SHORT])
        IN  /\ s.is_detached <=>
                  (/\ valid.rc = 0
                   /\ branch.rc = 0 /\ branch.out = <<>>
                   /\ short.rc = 0)
            /\ (valid.rc = 0 /\ branch.rc # 0) =>
                  /\ ~s.is_detached
                  /\ \A i \in 1..Len(s.issues) :
                        s.issues[i] # <<"Detached HEAD state">>

\* C20: the ahead/behind query is issued only when has_remote is true and
\* is_detached is false; in every returned record, error records included,
\* ahead = 0 and behind = 0 whenever has_remote is false or is_detached is
\* true, so no record is kept by both find_unsynced and find_no_remote, and
\* the issues "behind remote" and "No remote configured" never appear
\* together.
C20_AheadBehindOnlyWithRemote ==
    (gout # <<>> /\ gout[1].status # <<>>) =>
        LET s     == gout[1].status[1]
            asked == \E i \in 1..Len(gout[1].queries) :
                        gout[1].queries[i] = Q_AHEAD
        IN  /\ asked => (s.has_remote /\ ~s.is_detached)
            /\ (~s.has_remote \/ s.is_detached) => (s.ahead = 0 /\ s.behind = 0)
            /\ ~(Keeps("find_unsynced", DefaultDays, s)
                    /\ Keeps("find_no_remote", DefaultDays, s))
            /\ ~(/\ \E i \in 1..Len(s.issues) :
                        s.issues[i] = <<"No remote configured">>
                 /\ \E i \in 1..Len(s.issues) :
                        Len(s.issues[i]) = 2
                           /\ s.issues[i][2] = " commit(s) behind remote")

\* A detached repository without a remote whose ahead/behind query would
\* have answered with counts: the query was not issued.
C20_Witness ==
    /\ gout # <<>> /\ gout[1].status # <<>>
    /\ RunGit(gin.tool[Q_VALID]).rc = 0
    /\ gin.tool[Q_AHEAD] = Ok(<<"2", "\t", "1", "0", NL>>)
    /\ gout[1].status[1].is_detached
    /\ ~gout[1].status[1].has_remote
    /\ gout[1].status[1].ahead = 0


(***************************************************************************)
(* SpecBranches: get_branches against the listings git can answer with.    *)
(* A listing has up to MaxLines lines; a line carries the HEAD marker, the  *)
(* branch name, the upstream and the tracking annotation, or is not a       *)
(* branch line at all.                                                      *)
(***************************************************************************)
TrackInfos ==
    {<<"[", "ahead", " ", "2", "]">>,
     <<"[", "behind", " ", "1", "]">>,
     <<"[", "ahead", " ", "1", "2", ",", " ", "behind", " ", "3", "]">>,
     <<"[", "gone", "]">>,
     <<>>}

BranchEntries ==
    {<<h, LogSep>> \o n \o <<LogSep, "origin/main", LogSep>> \o t :
        h \in {"*", " "}, n \in BranchNames, t \in TrackInfos}
    \cup {<<h, LogSep>> \o n \o <<LogSep, LogSep>> :
            h \in {"*", " "}, n \in BranchNames}
    \cup {<<"*", LogSep, "main">>, <<"warning: refname is ambiguous">>, <<>>}

RECURSIVE JoinLines(_)
JoinLines(lines) ==
    IF lines = <<>> THEN <<>>
    ELSE Head(lines) \o <<NL>> \o JoinLines(Tail(lines))

BranchListings ==
    {JoinLines(ls) : ls \in UNION {[1..n -> BranchEntries] : n \in 0..MaxLines}}

BranchDates ==
    {Ok(<<"d_day9_utc", NL>>), Ok(<<"d_day8_noon", NL>>),
     Ok(<<"d_day11_utc", NL>>), Ok(<<"yesterday", NL>>), Ok(<<>>), Fatal}

BranchesInit ==
    /\ \E l \in {Ok(t) : t \in BranchListings} \cup {Fatal, TimedOut},
          d \in [BranchNames -> BranchDates] :
            gin = [arg |-> [kind |-> "dir", path |-> <<"home", "proj">>],
                   tool |-> [list |-> l, dates |-> d],
                   now |-> ScanClock]
    /\ gout = <<>>
    /\ hstatus = Idle /\ hresult = Idle
    /\ proc = Idle /\ ret = Idle
    /\ pcodes = Idle /\ pout = Idle
    /\ lfs = Idle /\ lmax = Idle /\ lout = Idle
    /\ sarg = Idle /\ sfs = Idle /\ scan = Idle

\* branches = pulse.get_branches(repo_path)
CallGetBranches ==
    /\ gout = <<>>
    /\ gout' = <<GetBranches(gin.arg, gin.tool, gin.now)>>
    /\ UNCHANGED <<gin, healthVars, runVars, porcelainVars, locateVars, scanVars>>

BranchesNext == CallGetBranches

SpecBranches == BranchesInit /\ [][BranchesNext]_vars

\* The instant of a parsed timestamp in hours, an unmarked one read as UTC.
C22_Instant(dt) ==
    IF dt.offset = <<>> THEN dt.wall ELSE dt.wall - dt.offset[1]

\* d is the floor in whole days of the time elapsed from dt to now.
C22_IsFloorOfElapsed(d, now, dt) ==
    /\ HoursPerDay * d <= now - C22_Instant(dt)
    /\ now - C22_Instant(dt) < HoursPerDay * (d + 1)

\* The Branch Analyzer's age: the floor of the elapsed time for a parseable
\* timestamp, 0 for any other answer of the commit-date query.
C22_BranchAgeIsFloor ==
    gout # <<>> =>
        \A i \in 1..Len(gout[1].status[1]) :
            LET b  == gout[1].status[1][i]
                dt == ParseIsoDate(b.last_commit_date)
            IN  /\ dt # <<>> =>
                      C22_IsFloorOfElapsed(b.last_commit_age_days, gin.now, dt[1])
                /\ dt = <<>> => b.last_commit_age_days = 0

C22_BranchAgeIsNonNegative ==
    gout # <<>> =>
        \A i \in 1..Len(gout[1].status[1]) :
            gout[1].status[1][i].last_commit_age_days >= 0


(***************************************************************************)
(* Claims about the Branch Analyzer, under SpecBranches.                   *)
(***************************************************************************)
\* The lines of the listing as git wrote it that hold at least two fields.
C29_WellFormed ==
    IF gin.tool.list.kind = "exit" /\ gin.tool.list.rc = 0
    THEN SelectSeq(SplitOn(gin.tool.list.stdout, NL),
                   LAMBDA l : \E i \in 1..Len(l) : l[i] = LogSep)
    ELSE <<>>

\* The counts each tracking annotation of the listings states.
C29_Stated(track) ==
    CASE track = <<"[", "ahead", " ", "2", "]">> -> [ahead |-> 2, behind |-> 0]
      [] track = <<"[", "behind", " ", "1", "]">> -> [ahead |-> 0, behind |-> 1]
      [] track = <<"[", "ahead", " ", "1", "2", ",", " ", "behind", " ", "3", "]">>
           -> [ahead |-> 12, behind |-> 3]
      [] OTHER -> [ahead |-> 0, behind |-> 0]

\* The commit-date query of the branch failed or answered nothing.
C29_NoDate(name) ==
    \/ name \notin DOMAIN gin.tool.dates
    \/ gin.tool.dates[name].kind # "exit"
    \/ gin.tool.dates[name].rc # 0
    \/ Strip(gin.tool.dates[name].stdout) = <<>>

\* C29: get_branches returns one BranchInfo per well-formed line of the
\* listing, in the listing's order; ahead is the N of "ahead N" in the
\* tracking annotation and behind the N of "behind N", 0 when absent; a
\* branch whose commit-date query fails or is empty has an empty
\* last_commit_date and age 0; a failed or empty listing yields an empty
\* list; nothing is raised.
C29_BranchesOfListing ==
    gout # <<>> =>
        LET lines    == C29_WellFormed
            branches == gout[1].status[1]
        IN  /\ gout[1].exc = ""
            /\ Len(branches) = Len(lines)
            /\ \A i \in 1..Len(lines) :
                  LET parts == SplitOn(lines[i], LogSep)
                      b     == branches[i]
                      track == IF Len(parts) > 3 THEN Strip(parts[4]) ELSE <<>>
                  IN  /\ b.name = Strip(parts[2])
                      /\ b.is_current <=> (Strip(parts[1]) = <<"*">>)
                      /\ b.tracking = IF Len(parts) > 2 THEN Strip(parts[3]) ELSE <<>>
                      /\ b.ahead = C29_Stated(track).ahead
                      /\ b.behind = C29_Stated(track).behind
                      /\ C29_NoDate(b.name) =>
                            (b.last_commit_date = <<>> /\ b.last_commit_age_days = 0)

\* Two branches are returned in the order of the listing, main before dev:
\* main is 12 ahead and 3 behind, the commit-date query of dev failed.
C29_Witness ==
    /\ gout # <<>>
    /\ Len(gout[1].status[1]) = 2
    /\ gout[1].status[1][1].name = <<"main">>
    /\ gout[1].status[1][1].ahead = 12
    /\ gout[1].status[1][1].behind = 3
    /\ gout[1].status[1][1].last_commit_date # <<>>
    /\ gout[1].status[1][2].name = <<"dev">>
    /\ gout[1].status[1][2].ahead = 0
    /\ gin.tool.dates[<<"dev">>] = Fatal
    /\ gout[1].status[1][2].last_commit_date = <<>>


(***************************************************************************)
(* Claims about the order of the queries, under SpecScan.                  *)
(***************************************************************************)
\* The fixed order of the queries of one extraction.
C25_Order ==
    <<Q_VALID, Q_BRANCH, Q_SHORT, Q_STATUS, Q_REMOTE, Q_AHEAD, Q_LOG, Q_COUNT,
      Q_BRANCHES, Q_TAGS, Q_STASH>>

C25_Rank(q) == CHOOSE i \in 1..Len(C25_Order) : C25_Order[i] = q

\* The place of the path among the located repositories; the path given to
\* get_status stands alone.
C25_Place(path) ==
    IF scan.op \in ScanOps
    THEN CHOOSE i \in 1..Len(scan.repo_paths) : scan.repo_paths[i] = path
    ELSE 1

\* Query k of the log precedes query l: an earlier repository, or the same
\* repository and an earlier place in the fixed order.
C25_Before(k, l) ==
    LET pk == C25_Place(scan.qlog[k][1])
        pl == C25_Place(scan.qlog[l][1])
    IN  \/ pk < pl
        \/ pk = pl /\ C25_Rank(scan.qlog[k][2]) < C25_Rank(scan.qlog[l][2])

C25_AskedAt(path, q) ==
    \E k \in 1..Len(scan.qlog) : scan.qlog[k] = <<path, q>>

\* C25: the queries of a scan are issued one repository after the other in
\* the order the repositories were located, and within one repository in
\* the fixed order validity, current branch, short commit id, status,
\* remotes, ahead/behind, last commit, commit count, branches, tags,
\* stashes, each at most once; the short commit id is asked only if the
\* branch name was not obtained and ahead/behind only if the record has a
\* remote and is not detached.
C25_SequentialSingleShot ==
    (scan.op \in ScanOps \cup {"get_status"}) =>
        /\ \A k \in 1..Len(scan.qlog) :
              /\ scan.qlog[k][2] \in Queries
              /\ scan.op \in ScanOps =>
                    \E i \in 1..Len(scan.repo_paths) :
                        scan.repo_paths[i] = scan.qlog[k][1]
        /\ \A k, l \in 1..Len(scan.qlog) : k < l => C25_Before(k, l)
        /\ \A i \in 1..Len(scan.extracted) :
              LET e == scan.extracted[i]
                  b == RunGit(Scenarios[e.scenario][Q_BRANCH])
              IN  /\ C25_AskedAt(e.path, Q_SHORT) => (b.rc # 0 \/ b.out = <<>>)
                  /\ C25_AskedAt(e.path, Q_AHEAD) =>
                        (e.status.has_remote /\ ~e.status.is_detached)

\* A scan of two repositories has returned: the first was asked for the
\* short commit id, the second for ahead/behind.
C25_Witness ==
    /\ Returned_Scan
    /\ Len(scan.repo_paths) >= 2
    /\ C25_AskedAt(scan.repo_paths[1], Q_SHORT)
    /\ ~C25_AskedAt(scan.repo_paths[1], Q_AHEAD)
    /\ C25_AskedAt(scan.repo_paths[2], Q_AHEAD)
    /\ ~C25_AskedAt(scan.repo_paths[2], Q_SHORT)
    /\ C25_AskedAt(scan.repo_paths[2], Q_STASH)


(***************************************************************************)
(* Claims about the append order, under SpecScan.                          *)
(***************************************************************************)
\* The orders in which the extracted records can be appended.
C26_Orders ==
    LET n == Len(scan.extracted)
    IN  {p \in [1..n -> 1..n] : \A i, j \in 1..n : p[i] = p[j] => i = j}

\* The records appended in order p, then sorted.
C26_Appended(p) == [k \in 1..Len(scan.extracted) |-> scan.extracted[p[k]].status]
C26_Sorted(p) == SortRepos(C26_Appended(p))

C26_SameKey(a, b) == a.health_score = b.health_score /\ a.name = b.name

\* C26 as stated: every order of appending the records, followed by the
\* sort, yields the repos sequence of the result.
C26_AsStated ==
    Returned_Scan => \A p \in C26_Orders : C26_Sorted(p) = ScanRepos

\* C26: every order of appending the records, followed by the sort, yields
\* a sequence of the same records with the same (health_score, name) at
\* each position, in which records of equal (health_score, name) stand in
\* the order they were appended in; it is the repos sequence of the result
\* whenever no two records have the same (health_score, name).
C26_SameUpToTies ==
    Returned_Scan =>
        \A p \in C26_Orders :
            LET in  == C26_Appended(p)
                out == C26_Sorted(p)
                n   == Len(ScanRepos)
            IN  /\ Len(out) = n
                /\ \A k \in 1..n : C26_SameKey(out[k], ScanRepos[k])
                /\ \A k \in 1..n : \E l \in 1..n : out[l] = in[k]
                /\ \A i, j \in 1..n :
                      (i < j /\ C26_SameKey(in[i], in[j])) =>
                          \E k, l \in 1..n :
                              k < l /\ out[k] = in[i] /\ out[l] = in[j]
                /\ (\A i, j \in 1..n :
                        C26_SameKey(ScanRepos[i], ScanRepos[j]) => i = j)
                      => out = ScanRepos

\* Two repositories of the same name and score at different paths were
\* scanned, and appending them the other way round gives another sequence.
C26_Witness ==
    /\ Returned_Scan
    /\ \E i, j \in 1..Len(ScanRepos) :
          /\ i # j
          /\ C26_SameKey(ScanRepos[i], ScanRepos[j])
          /\ ScanRepos[i].path # ScanRepos[j].path
    /\ \E p \in C26_Orders : C26_Sorted(p) # ScanRepos


(***************************************************************************)
(* Claims about termination, under SpecScan.                               *)
(***************************************************************************)
\* The queries issued on a path.
C30_QueriesOn(path) == {k \in 1..Len(scan.qlog) : scan.qlog[k][1] = path}

\* The walk and the loop of a scan are bounded: every call of the locator
\* is one level below the call that made it and none is deeper than
\* max_depth + 1, the located paths are no more than the calls, and each
\* located path is asked at most eleven queries.
C30_Bounded ==
    (scan.op \in ScanOps /\ scan.walked) =>
        /\ \A j \in 1..Len(scan.walk) :
              /\ scan.walk[j].depth <= scan.self[1].max_depth + 1
              /\ Len(scan.walk[j].path) = Len(ScanRoot) + scan.walk[j].depth
              /\ j > 1 =>
                    \E i \in 1..(j - 1) :
                        /\ scan.walk[i].depth = scan.walk[j].depth - 1
                        /\ IsProperPrefix(scan.walk[i].path, scan.walk[j].path)
        /\ Len(scan.repo_paths) <= Len(scan.walk)
        /\ scan.i <= Len(scan.repo_paths) + 1
        /\ \A i \in 1..Len(scan.repo_paths) :
              Cardinality(C30_QueriesOn(scan.repo_paths[i])) <= 11
        /\ Len(scan.qlog) <= 11 * Len(scan.repo_paths)

\* The call has returned a ScanResult (or what a filter keeps of it), or
\* it has raised on its arguments.
C30_Ended ==
    \/ scan.pc = "raised"
    \/ scan.pc = "done" /\ scan.out # <<>> /\ (scan.op \in ScanOps => scan.result # <<>>)

\* What is left to do: the phases ahead and, in the loop, the located
\* paths not yet extracted.
C30_Phase ==
    CASE scan.pc = "new" -> 3
      [] scan.pc = "setup" -> 2
      [] scan.pc = "loop" -> 1
      [] OTHER -> 0

C30_Left == IF scan.pc = "loop" THEN Len(scan.repo_paths) + 1 - scan.i ELSE 0

\* A step of the program leaves less to do.
C30_Decreases ==
    \/ C30_Phase' < C30_Phase
    \/ C30_Phase' = C30_Phase /\ C30_Left' < C30_Left /\ C30_Left' >= 0

\* The call is at a step of the program: the constructor, the first step
\* of the entry point called, an iteration of the loop for which git has
\* an answer, or the end of the loop.
C30_CanStep ==
    \/ scan.pc = "new"
    \/ scan.pc = "setup" /\ scan.op \in Ops
    \/ /\ scan.pc = "loop"
       /\ scan.i \in 1..Len(scan.repo_paths)
       /\ \E sc \in DOMAIN Scenarios :
              \A k \in 1..Len(scan.extracted) :
                  Resolve(sfs, scan.extracted[k].path)
                        = Resolve(sfs, scan.repo_paths[scan.i])
                     => scan.extracted[k].scenario = sc
    \/ scan.pc = "loop" /\ scan.i = Len(scan.repo_paths) + 1

\* C30: scan always terminates, whatever the directory structure, cyclic
\* ones included, and whatever max_depth >= 1: the recursion of the locator
\* never goes deeper than max_depth + 1, it returns finitely many paths,
\* the scan issues at most 11 queries per located path, every step of the
\* program leaves less to do and a call that has not ended has a step to
\* take.
C30_ScanTerminates ==
    /\ [](C30_Bounded /\ (C30_Ended \/ C30_CanStep))
    /\ [][ProgramStep => C30_Decreases]_vars

\* A scan of a tree in which a directory is linked into itself has
\* returned: the walk went through the link down to max_depth + 1 and a
\* repository was located through it as well as directly.
C30_Witness ==
    /\ Returned_Scan
    /\ \E e \in sfs : e[2] = "loop"
    /\ \E j \in 1..Len(scan.walk) :
          /\ scan.walk[j].depth = scan.self[1].max_depth + 1
          /\ Resolve(sfs, scan.walk[j].path) # scan.walk[j].path
    /\ \E i, j \in 1..Len(scan.repo_paths) :
          /\ i # j
          /\ Resolve(sfs, scan.repo_paths[i]) = Resolve(sfs, scan.repo_paths[j])
    /\ Len(scan.qlog) > 0


(***************************************************************************)
(* Claims about failed queries, under SpecExtract.                         *)
(***************************************************************************)
\* The queries every extraction issues once the validity check succeeded.
C21_Steps ==
    {Q_BRANCH, Q_STATUS, Q_REMOTE, Q_LOG, Q_COUNT, Q_BRANCHES, Q_TAGS, Q_STASH}

\* The fields query q feeds hold their zero-value defaults in s.
C21_Defaults(s, q) ==
    CASE q \in {Q_BRANCH, Q_SHORT} ->
           s.current_branch = <<>> /\ ~s.is_detached
      [] q = Q_STATUS ->
           /\ s.staged_count = 0 /\ s.modified_count = 0
           /\ s.untracked_count = 0 /\ s.deleted_count = 0
           /\ s.conflict_count = 0 /\ ~s.is_dirty
      [] q = Q_REMOTE -> ~s.has_remote /\ s.remote_url = <<>>
      [] q = Q_AHEAD -> s.ahead = 0 /\ s.behind = 0
      [] q = Q_LOG ->
           /\ s.last_commit_date = <<>> /\ s.last_commit_message = <<>>
           /\ s.last_commit_age_days = 0
      [] q = Q_COUNT -> s.total_commits = 0
      [] q = Q_BRANCHES -> s.branch_count = 0
      [] q = Q_TAGS -> s.tag_count = 0
      [] q = Q_STASH -> s.stash_count = 0

\* The queries of the extraction that were issued and failed.
C21_Failed ==
    {q \in Queries \ {Q_VALID} :
        /\ \E i \in 1..Len(gout[1].queries) : gout[1].queries[i] = q
        /\ RunGit(gin.tool[q]).rc # 0}

\* The extraction ran to its end: every step was taken, no error was set
\* and the health fields are the Health Scorer's for the record.
C21_NotAborted ==
    LET s == gout[1].status[1]
    IN  /\ \A q \in C21_Steps :
              \E i \in 1..Len(gout[1].queries) : gout[1].queries[i] = q
        /\ s.error = <<>>
        /\ LET h == CalculateHealth(s)
           IN  /\ s.health_score = h.score
               /\ s.health_grade = h.grade
               /\ s.issues = h.issues

\* C21: after the validity check succeeds, whichever later queries fail,
\* the extraction is not aborted (all remaining steps run, error is empty,
\* the health fields are the Health Scorer's for the record) and every
\* field fed by a failed query holds its zero-value default.
C21_FailedQueriesLeaveDefaults ==
    (gout # <<>> /\ gout[1].status # <<>> /\ RunGit(gin.tool[Q_VALID]).rc = 0) =>
        /\ C21_NotAborted
        /\ \A q \in C21_Failed : C21_Defaults(gout[1].status[1], q)

\* The same with the current-branch step left out.
C21_ExceptBranchStep ==
    (gout # <<>> /\ gout[1].status # <<>> /\ RunGit(gin.tool[Q_VALID]).rc = 0) =>
        /\ C21_NotAborted
        /\ \A q \in C21_Failed \ {Q_BRANCH, Q_SHORT} :
              C21_Defaults(gout[1].status[1], q)


(***************************************************************************)
(* Claims about the commit age, under SpecExtract.                         *)
(***************************************************************************)
\* C22: last_commit_age_days of the Status Extractor is a non-negative
\* integer, the floor in whole days of now - commit time for every
\* parseable commit timestamp, marked or unmarked, earlier or later than
\* the clock; an unparseable timestamp leaves it 0.
C22_AgeIsNonNegativeFloor ==
    (gout # <<>> /\ gout[1].status # <<>>) =>
        LET s  == gout[1].status[1]
            dt == ParseIsoDate(s.last_commit_date)
        IN  /\ s.last_commit_age_days >= 0
            /\ dt # <<>> =>
                  C22_IsFloorOfElapsed(s.last_commit_age_days, gin.now, dt[1])
            /\ dt = <<>> => s.last_commit_age_days = 0

\* The same without the sign: the age is the floor, whatever its sign.
C22_AgeIsFloor ==
    (gout # <<>> /\ gout[1].status # <<>>) =>
        LET s  == gout[1].status[1]
            dt == ParseIsoDate(s.last_commit_date)
        IN  /\ dt # <<>> =>
                  C22_IsFloorOfElapsed(s.last_commit_age_days, gin.now, dt[1])
            /\ dt = <<>> => s.last_commit_age_days = 0


(***************************************************************************)
(* Claims about the inventory counts, under SpecExtract.                   *)
(***************************************************************************)
\* The number of lines of the text that hold something other than blanks:
\* the places where the first such token of a line stands.
C24_NonBlankLines(text) ==
    Cardinality({i \in 1..Len(text) :
        /\ text[i] \notin Whitespace
        /\ \A j \in 1..(i - 1) :
              (\A k \in j..(i - 1) : text[k] # NL) => text[j] \in Whitespace})

\* What git answered to query q, when it ran and exited with code 0.
C24_Answered(q) ==
    gin.tool[q].kind = "exit" /\ gin.tool[q].rc = 0

C24_LineCount(q) ==
    IF C24_Answered(q) THEN C24_NonBlankLines(gin.tool[q].stdout) ELSE 0

\* C24 as stated: each of the four counts is the number of non-empty lines
\* of the output of its query, 0 when the query fails or answers nothing.
C24_AsStated ==
    (gout # <<>> /\ gout[1].status # <<>> /\ RunGit(gin.tool[Q_VALID]).rc = 0) =>
        LET s == gout[1].status[1]
        IN  /\ s.total_commits = C24_LineCount(Q_COUNT)
            /\ s.branch_count = C24_LineCount(Q_BRANCHES)
            /\ s.tag_count = C24_LineCount(Q_TAGS)
            /\ s.stash_count = C24_LineCount(Q_STASH)

\* C24: branch_count, tag_count and stash_count are each the number of
\* non-blank lines of the output of their listing query; total_commits is
\* the integer the count query printed; each is 0 when its query fails or
\* returns empty output, and total_commits also when the output is not an
\* integer.
C24_CountsOfListings ==
    (gout # <<>> /\ gout[1].status # <<>> /\ RunGit(gin.tool[Q_VALID]).rc = 0) =>
        LET s == gout[1].status[1]
            n == ParseInt(gin.tool[Q_COUNT].stdout)
        IN  /\ s.total_commits =
                  IF C24_Answered(Q_COUNT) /\ n.ok THEN n.val ELSE 0
            /\ s.branch_count = C24_LineCount(Q_BRANCHES)
            /\ s.tag_count = C24_LineCount(Q_TAGS)
            /\ s.stash_count = C24_LineCount(Q_STASH)

\* Twelve commits counted from a one-line answer, and two tags from a
\* listing with blank lines between them.
C24_Witness ==
    /\ gout # <<>> /\ gout[1].status # <<>>
    /\ gin.tool[Q_COUNT] = Ok(<<"1", "2", NL>>)
    /\ gout[1].status[1].total_commits = 12
    /\ Len(SplitOn(gin.tool[Q_TAGS].stdout, NL)) > 2
    /\ gout[1].status[1].tag_count = 2
    /\ gout[1].status[1].branch_count = 2
    /\ gout[1].status[1].stash_count = 0


(***************************************************************************)
(* SpecHealth: _calculate_health applied to every status record of the     *)
(* bounded input space.  The ages and the ahead counts drawn sit on both    *)
(* sides of the thresholds the code compares them with; an age of -1 is a  *)
(* commit dated after the current clock.                                   *)
(***************************************************************************)
HealthCounts == 0..MaxCount
HealthAges == {-1, 0, StaleDays, StaleDays + 1, VeryStaleDays, VeryStaleDays + 1}
HealthAheads == {0, UnpushedLimit, UnpushedLimit + 1}

HealthInit ==
    /\ \E hr \in BOOLEAN, det \in BOOLEAN,
          st \in HealthCounts, mo \in HealthCounts, un \in HealthCounts,
          de \in HealthCounts, co \in HealthCounts, sh \in HealthCounts,
          be \in HealthCounts, tc \in HealthCounts,
          ah \in HealthAheads, age \in HealthAges :
            hstatus = [DefaultStatus("t", <<"tmp", "t">>) EXCEPT
                         !.has_remote = hr, !.is_detached = det,
                         !.staged_count = st, !.modified_count = mo,
                         !.untracked_count = un, !.deleted_count = de,
                         !.conflict_count = co, !.stash_count = sh,
                         !.behind = be, !.total_commits = tc,
                         !.ahead = ah, !.last_commit_age_days = age]
    /\ hresult = <<>>
    /\ proc = Idle /\ ret = Idle
    /\ pcodes = Idle /\ pout = Idle
    /\ gin = Idle /\ gout = Idle
    /\ lfs = Idle /\ lmax = Idle /\ lout = Idle
    /\ sarg = Idle /\ sfs = Idle /\ scan = Idle

\* score, grade, issues = pulse._calculate_health(status)
ScoreStatus ==
    /\ hresult = <<>>
    /\ hresult' = <<CalculateHealth(hstatus)>>
    /\ UNCHANGED <<hstatus, runVars, porcelainVars, extractVars, locateVars, scanVars>>

HealthNext == ScoreStatus

SpecHealth == HealthInit /\ [][HealthNext]_vars

(***************************************************************************)
(* Claims about the Health Scorer, checked under SpecHealth.               *)
(***************************************************************************)
\* The penalties of the triggered rules, summed as the scoring table lists them.
PenaltySum(s) ==
    (IF ~s.has_remote THEN 15 ELSE 0)
  + (IF s.staged_count > 0 \/ s.modified_count > 0 THEN 10 ELSE 0)
  + (IF s.untracked_count > 0 THEN 5 ELSE 0)
  + (IF s.deleted_count > 0 THEN 5 ELSE 0)
  + (IF s.behind > 0 THEN 10 ELSE 0)
  + (IF s.ahead > 5 THEN 5 ELSE 0)
  + (IF s.last_commit_age_days > 90 THEN 20
     ELSE IF s.last_commit_age_days > 30 THEN 10 ELSE 0)
  + (IF s.is_detached THEN 5 ELSE 0)
  + (IF s.conflict_count > 0 THEN 20 ELSE 0)
  + (IF s.total_commits = 0 THEN 30 ELSE 0)
  + (IF s.stash_count > 0 THEN 3 ELSE 0)

AllRulesTrigger(s) ==
    /\ ~s.has_remote
    /\ s.staged_count > 0 \/ s.modified_count > 0
    /\ s.untracked_count > 0
    /\ s.deleted_count > 0
    /\ s.behind > 0
    /\ s.ahead > 5
    /\ s.last_commit_age_days > 30
    /\ s.is_detached
    /\ s.conflict_count > 0
    /\ s.total_commits = 0
    /\ s.stash_count > 0

\* C1: for every status record, _calculate_health returns
\* score = max(0, 100 - P), P the sum of the penalties of the triggered rules;
\* the score lies in 0..100 and is 0 when all rules trigger together.
C1_ScoreIsClampedPenaltySum ==
    hresult # <<>> =>
        /\ hresult[1].score = Max(0, 100 - PenaltySum(hstatus))
        /\ hresult[1].score \in 0..100
        /\ AllRulesTrigger(hstatus) => hresult[1].score = 0

\* Every rule has triggered on a scored record: the penalties exceed 100.
C1_Witness ==
    /\ hresult # <<>>
    /\ AllRulesTrigger(hstatus)
    /\ PenaltySum(hstatus) > 100

\* C2: the grade is one of A, B, C, D, F and is decided by the score alone:
\* A iff score >= 90, B iff 80 <= score < 90, C iff 70 <= score < 80,
\* D iff 60 <= score < 70, F iff score < 60.
C2_GradeByScore ==
    hresult # <<>> =>
        LET sc == hresult[1].score
            g  == hresult[1].grade
        IN  /\ g \in {"A", "B", "C", "D", "F"}
            /\ (g = "A") <=> (sc >= 90)
            /\ (g = "B") <=> (80 <= sc /\ sc < 90)
            /\ (g = "C") <=> (70 <= sc /\ sc < 80)
            /\ (g = "D") <=> (60 <= sc /\ sc < 70)
            /\ (g = "F") <=> (sc < 60)

\* The no-remote-only record has been scored 85, grade B.
C2_Witness ==
    /\ hresult # <<>>
    /\ PenaltySum(hstatus) = 15
    /\ ~hstatus.has_remote
    /\ hresult[1].score = 85
    /\ hresult[1].grade = "B"

\* What C3 lists: remote, commits, recent, nothing dirty, no conflict, attached,
\* no stash.
C3_ListedConditions(s) ==
    /\ s.has_remote
    /\ s.total_commits > 0
    /\ s.last_commit_age_days <= 30
    /\ s.staged_count = 0 /\ s.modified_count = 0
    /\ s.untracked_count = 0 /\ s.deleted_count = 0
    /\ s.conflict_count = 0
    /\ ~s.is_detached
    /\ s.stash_count = 0

\* C3 as stated: score = 100 with no issues iff has_remote, total_commits > 0,
\* age <= 30, no dirty state, no conflicts, not detached, no stashes.
C3_AsStated ==
    hresult # <<>> =>
        ((hresult[1].score = 100 /\ hresult[1].issues = <<>>)
            <=> C3_ListedConditions(hstatus))

\* C3 (amended): score = 100 with no issues iff the listed conditions hold and
\* the record is also not behind its remote (behind = 0) and has at most 5
\* unpushed commits (ahead <= 5).
C3_PerfectIffNoRuleTriggers ==
    hresult # <<>> =>
        ((hresult[1].score = 100 /\ hresult[1].issues = <<>>)
            <=> (/\ C3_ListedConditions(hstatus)
                 /\ hstatus.behind <= 0
                 /\ hstatus.ahead <= 5))

\* A record with unpushed commits within the limit has been scored 100.
C3_Witness ==
    /\ hresult # <<>>
    /\ hresult[1].score = 100
    /\ hresult[1].issues = <<>>
    /\ hstatus.ahead = 5


\* One issue when the rule triggered, none otherwise.
C28_When(triggered, issue) == IF triggered THEN <<issue>> ELSE <<>>

\* The issues of the triggered rules in the order of the scoring table.
C28_Expected(s) ==
    C28_When(~s.has_remote, <<"No remote configured">>)
    \o C28_When(s.staged_count > 0 \/ s.modified_count > 0,
                <<s.staged_count + s.modified_count, " uncommitted change(s)">>)
    \o C28_When(s.untracked_count > 0,
                <<s.untracked_count, " untracked file(s)">>)
    \o C28_When(s.deleted_count > 0, <<s.deleted_count, " deleted file(s)">>)
    \o C28_When(s.behind > 0, <<s.behind, " commit(s) behind remote">>)
    \o C28_When(s.ahead > 5, <<s.ahead, " unpushed commit(s)">>)
    \o C28_When(s.last_commit_age_days > 90,
                <<"Very stale: ", s.last_commit_age_days,
                  " days since last commit">>)
    \o C28_When(s.last_commit_age_days > 30 /\ s.last_commit_age_days <= 90,
                <<"Stale: ", s.last_commit_age_days, " days since last commit">>)
    \o C28_When(s.is_detached, <<"Detached HEAD state">>)
    \o C28_When(s.conflict_count > 0, <<s.conflict_count, " merge conflict(s)">>)
    \o C28_When(s.total_commits = 0, <<"No commits yet">>)
    \o C28_When(s.stash_count > 0, <<s.stash_count, " stash(es) pending">>)

\* The issues about the age of the last commit.
C28_StaleIssues(issues, word) ==
    {i \in 1..Len(issues) : Len(issues[i]) = 3 /\ issues[i][1] = word}

\* No rule but the no-remote rule triggers.
C28_OnlyNoRemote(s) ==
    /\ ~s.has_remote
    /\ s.staged_count = 0 /\ s.modified_count = 0 /\ s.untracked_count = 0
    /\ s.deleted_count = 0 /\ s.behind = 0 /\ s.ahead <= 5
    /\ s.last_commit_age_days <= 30 /\ ~s.is_detached
    /\ s.conflict_count = 0 /\ s.total_commits > 0 /\ s.stash_count = 0

\* C28: the issues are those of the triggered rules, one string each, in
\* the order no remote, uncommitted, untracked, deleted, behind, unpushed,
\* very stale or stale, detached, conflicts, no commits, stashes; "Very
\* stale" and "Stale" never appear together and an age above 90 yields
\* "Very stale" alone; there are at most 11 issues; the no-remote rule
\* alone yields the single issue "No remote configured".
C28_IssuesInRuleOrder ==
    hresult # <<>> =>
        LET issues == hresult[1].issues
        IN  /\ issues = C28_Expected(hstatus)
            /\ Len(issues) <= 11
            /\ C28_StaleIssues(issues, "Very stale: ") = {}
                  \/ C28_StaleIssues(issues, "Stale: ") = {}
            /\ hstatus.last_commit_age_days > 90 =>
                  /\ Cardinality(C28_StaleIssues(issues, "Very stale: ")) = 1
                  /\ C28_StaleIssues(issues, "Stale: ") = {}
            /\ C28_OnlyNoRemote(hstatus) =>
                  issues = << <<"No remote configured">> >>

\* All eleven rules have triggered on a record whose last commit is more
\* than 90 days old: eleven issues, the first about the remote, the last
\* about the stashes.
C28_Witness ==
    /\ hresult # <<>>
    /\ hstatus.last_commit_age_days > 90
    /\ Len(hresult[1].issues) = 11
    /\ hresult[1].issues[1] = <<"No remote configured">>
    /\ hresult[1].issues[7][1] = "Very stale: "
    /\ hresult[1].issues[11] = <<hstatus.stash_count, " stash(es) pending">>

====
